---- MODULE Spec2Model ----
(***************************************************************************)
(* Verification model of the database introspection server: the read-only  *)
(* query classifier of the two dialect adapters (db_adapter.ts), the       *)
(* execution handlers (tools/execution.ts) and the catalog fetchers.       *)
(* SQL text is modelled as a sequence of one-character strings, so that    *)
(* trimming, upper-casing, tokenising and word-boundary matching are       *)
(* computed the way the code computes them.                                *)
(***************************************************************************)
EXTENDS Integers, Sequences, FiniteSets, TLC

VARIABLES
    roQuery,      \* classifier: the SQL text handed to isReadOnlyQuery
    roDialect,    \* classifier: the adapter ("mysql" | "postgres")
    roPc,         \* classifier: "input" before the call, "classified" after it
    roResult,     \* classifier: the boolean returned (meaningful once classified)
    roUtilsResult \* classifier: the boolean utils.ts isReadOnlyQuery returns for the text

VARIABLES
    exTool,       \* call: the tool invoked, or "adapter" for a direct adapter call
    exDb,         \* call: databaseType
    exQueries,    \* call: the caller's SQL texts (one, or the batch)
    exStop,       \* call: stop_on_error
    exHasName,    \* call: whether databaseName was supplied
    exPoolInit,   \* configuration: whether the dialect's pool exists
    exTables,     \* number of tables SHOW TABLES returns (getIndexes)
    exMethod,     \* the adapter method running
    exPc,         \* where the call is
    exI,          \* 1-based index of the batch query being run
    exStep,       \* 1-based index of the adapter method's next statement
    exConns,      \* per connection acquired by the call: how often it was released
    exCur,        \* the connection the local variable refers to (0: null)
    exSent,       \* the statements sent to the server during the call
    exErrors,     \* errorsEncountered.length
    exResults,    \* batchResults: the success flag of each query run
    exOrder,      \* the indices of the caller's queries submitted, in order of submission
    exThrown,     \* the exception in flight ("none" | "error" | "stopped")
    exResp,       \* the response ("none" | "ok" | "error" | "throw")
    poolHeld      \* connections checked out of the pool

VARIABLES
    fDialect,     \* fetch: the adapter ("mysql" | "postgres")
    fCat,         \* fetch: the catalog of the database
    fPc,          \* fetch: where the adapter call is
    fSchema,      \* fetch: schemaDetails as built so far
    fLog,         \* fetch: the outcome of each catalog query sent
    fKind,        \* fetch: what the caller got ("none" | "schema" | "relationships" | "error")
    fValue,       \* fetch: the value returned
    fFilter,      \* fetch: requestedTables / tables, as a set ({}: no filter)
    fRows         \* fetch: the rows of the last catalog query, as they arrived

VARIABLES
    dSource,      \* diff: sourceSchema
    dTarget,      \* diff: targetSchema
    dPc,          \* diff: "input" | "compared"
    dDiff         \* diff: the SchemaDiff returned

VARIABLES
    nRels,        \* nav: the relationships of the database
    nSource,      \* nav: source_table
    nTarget,      \* nav: target_table
    nMaxHops,     \* nav: max_hops
    nPc,          \* nav: where the handler is
    nConn,        \* nav: connection ("null" | "held" | "released")
    nAcquired,    \* nav: connections acquired
    nReleased,    \* nav: connections released
    nFetched,     \* nav: calls of fetchExplicitRelationships
    nSearched,    \* nav: calls of findPathsBFS
    nKind,        \* nav: the kind of response
    nPaths        \* nav: the paths found

VARIABLES
    eFormatter,   \* fmt: "index" (tools/index.ts) | "utils" (tools/utils.ts)
    eError,       \* fmt: the error caught
    eDatabaseType,\* fmt: databaseType ("undefined": not passed)
    ePools,       \* fmt: <<mysqlPool set, pgPool set>>
    eIdentifier,  \* fmt: identifier / dbName
    eTableName,   \* fmt: tableName
    ePc,          \* fmt: "caught" | "formatted"
    eResponse     \* fmt: the response built

VARIABLES
    wTool,        \* wrap: the tool's name
    wBehaviour,   \* wrap: what the original handler does
    wPc,          \* wrap: "registered" | "awaiting" | "resolved" | "catch" | "done"
    wResult,      \* wrap: result of the await
    wCaught,      \* wrap: the error caught
    wOutcome      \* wrap: what the caller got: exception escaped, responses

VARIABLES
    hTool,        \* handler: the tool invoked
    hDatabaseType,\* handler: databaseType
    hPools,       \* handler: <<mysqlPool set, pgPool set>>
    hHasName,     \* handler: databaseName was given
    hResult,      \* handler: what the adapter call does
    hAdapter,     \* handler: the local adapter ("undefined" until assigned)
    hPc,          \* handler: "try" | "call" | "catch" | "done"
    hOutcome      \* handler: "none" | "response" | "error response" | "rejects"

VARIABLES
    bAdjList,     \* search: adjList
    bEndNode,     \* search: endNode
    bMaxDepth,    \* search: maxDepth
    bQueue,       \* search: queue
    bVisitedInPath,\* search: visitedInPath, as pairs <<node, path>>
    bPaths,       \* search: paths
    bPc           \* search: "loop" | "returned"

VARIABLES
    kKind,        \* keys: "index" | "constraint" rows
    kRows,        \* keys: the rows the catalog query returned
    kPc,          \* keys: "fetched" | "grouped"
    kTemp         \* keys: tempIndexes / tempConstraints

VARIABLES
    rDeclared,    \* rel: the foreign keys the schema declares
    rTables,      \* rel: the tables asked for (none: all)
    rPc,          \* rel: "called" | "done"
    rRows,        \* rel: the rows the query returned, in arrival order
    rKind,        \* rel: "none" | "relationships" | "error"
    rValue        \* rel: the Relationship list returned

VARIABLES
    plSize,       \* the number of connections a pool may hand out
    plHeld,       \* per pool: the connections handed out and not yet given back
    plQueue,      \* per pool: the calls whose request waits, oldest first
    cDb,          \* per concurrent call: its databaseType
    cLeft,        \* per concurrent call: the statements it still has to run
    cPc,          \* per concurrent call: ready, waiting, holding or done
    cHeld,        \* per concurrent call: the connections it holds
    cOutcome      \* per concurrent call: none, answered or rejected

roVars == <<roQuery, roDialect, roPc, roResult, roUtilsResult>>

exArgs == <<exTool, exDb, exQueries, exStop, exHasName, exPoolInit, exTables>>

exVars == <<exArgs, exMethod, exPc, exI, exStep, exConns, exCur, exSent, exErrors,
            exResults, exOrder, exThrown, exResp, poolHeld>>

fVars == <<fDialect, fCat, fPc, fSchema, fLog, fKind, fValue, fFilter, fRows>>

dVars == <<dSource, dTarget, dPc, dDiff>>

nVars == <<nRels, nSource, nTarget, nMaxHops, nPc, nConn, nAcquired, nReleased, nFetched, nSearched, nKind, nPaths>>

eVars == <<eFormatter, eError, eDatabaseType, ePools, eIdentifier, eTableName, ePc, eResponse>>

wVars == <<wTool, wBehaviour, wPc, wResult, wCaught, wOutcome>>

hVars == <<hTool, hDatabaseType, hPools, hHasName, hResult, hAdapter, hPc, hOutcome>>

bVars == <<bAdjList, bEndNode, bMaxDepth, bQueue, bVisitedInPath, bPaths, bPc>>

kVars == <<kKind, kRows, kPc, kTemp>>

rVars == <<rDeclared, rTables, rPc, rRows, rKind, rValue>>

plVars == <<plSize, plHeld, plQueue, cDb, cLeft, cPc, cHeld, cOutcome>>

vars == <<roVars, exVars, fVars, dVars, nVars, eVars, wVars, hVars, bVars, kVars, rVars, plVars>>

otherThanRO == <<exVars, fVars, dVars, nVars, eVars, wVars, hVars, bVars, kVars, rVars, plVars>>

otherThanExec == <<roVars, fVars, dVars, nVars, eVars, wVars, hVars, bVars, kVars, rVars, plVars>>

otherThanFetch == <<roVars, exVars, dVars, nVars, eVars, wVars, hVars, bVars, kVars, rVars, plVars>>

otherThanDiff == <<roVars, exVars, fVars, nVars, eVars, wVars, hVars, bVars, kVars, rVars, plVars>>

otherThanNav == <<roVars, exVars, fVars, dVars, eVars, wVars, hVars, bVars, kVars, rVars, plVars>>

otherThanFmt == <<roVars, exVars, fVars, dVars, nVars, wVars, hVars, bVars, kVars, rVars, plVars>>

otherThanWrap == <<roVars, exVars, fVars, dVars, nVars, eVars, hVars, bVars, kVars, rVars, plVars>>

otherThanHandler == <<roVars, exVars, fVars, dVars, nVars, eVars, wVars, bVars, kVars, rVars, plVars>>

otherThanBfs == <<roVars, exVars, fVars, dVars, nVars, eVars, wVars, hVars, kVars, rVars, plVars>>

otherThanKey == <<roVars, exVars, fVars, dVars, nVars, eVars, wVars, hVars, bVars, rVars, plVars>>

otherThanRel == <<roVars, exVars, fVars, dVars, nVars, eVars, wVars, hVars, bVars, kVars, plVars>>

otherThanPool == <<roVars, exVars, fVars, dVars, nVars, eVars, wVars, hVars, bVars, kVars, rVars>>

(***************************************************************************)
(* Bounds                                                                  *)
(***************************************************************************)
\* number of text fragments concatenated into one classifier input
MaxFragments == 3

\* number of queries in one execute_batch call
MaxBatch == 2

\* number of tables of the database that getIndexes walks
MaxTables == 2

\* number of columns of a table, and of a key
MaxCols == 2

\* number of PRIMARY KEY constraint names the catalog reports for one table
MaxPrimaryKeys == 2

\* number of foreign keys of the database searched for paths
MaxRels == 3

\* largest max_hops asked for
MaxHops == 2

DatabaseTypes == {"mysql", "postgres"}

SetMin(S) == CHOOSE x \in S : \A y \in S : x <= y

SetMax(S) == CHOOSE x \in S : \A y \in S : x >= y

(***************************************************************************)
(* Read-only classifier: db_adapter.ts                                      *)
(***************************************************************************)
ALLOWED_QUERY_PREFIXES ==
    { <<"S", "E", "L", "E", "C", "T">>,
      <<"S", "H", "O", "W">>,
      <<"D", "E", "S", "C", "R", "I", "B", "E">>,
      <<"E", "X", "P", "L", "A", "I", "N">>,
      <<"W", "I", "T", "H">> }

FORBIDDEN_KEYWORDS ==
    { <<"I", "N", "S", "E", "R", "T">>,
      <<"U", "P", "D", "A", "T", "E">>,
      <<"D", "E", "L", "E", "T", "E">>,
      <<"R", "E", "P", "L", "A", "C", "E">>,
      <<"C", "R", "E", "A", "T", "E">>,
      <<"A", "L", "T", "E", "R">>,
      <<"D", "R", "O", "P">>,
      <<"T", "R", "U", "N", "C", "A", "T", "E">>,
      <<"G", "R", "A", "N", "T">>,
      <<"R", "E", "V", "O", "K", "E">>,
      <<"S", "E", "T">>,
      <<"L", "O", "C", "K">>,
      <<"U", "N", "L", "O", "C", "K">>,
      <<"C", "A", "L", "L">>,
      <<"L", "O", "A", "D">>,
      <<"H", "A", "N", "D", "L", "E", "R">>,
      <<"D", "O">>,
      <<"P", "R", "E", "P", "A", "R", "E">>,
      <<"E", "X", "E", "C", "U", "T", "E">>,
      <<"D", "E", "A", "L", "L", "O", "C", "A", "T", "E">> }

allowedPrefixes ==
    { <<"S", "E", "L", "E", "C", "T">>,
      <<"W", "I", "T", "H">>,
      <<"E", "X", "P", "L", "A", "I", "N">>,
      <<"S", "H", "O", "W">> }

forbiddenKeywords ==
    { <<"I", "N", "S", "E", "R", "T">>,
      <<"U", "P", "D", "A", "T", "E">>,
      <<"D", "E", "L", "E", "T", "E">>,
      <<"R", "E", "P", "L", "A", "C", "E">>,
      <<"C", "R", "E", "A", "T", "E">>,
      <<"A", "L", "T", "E", "R">>,
      <<"D", "R", "O", "P">>,
      <<"T", "R", "U", "N", "C", "A", "T", "E">>,
      <<"G", "R", "A", "N", "T">>,
      <<"R", "E", "V", "O", "K", "E">>,
      <<"S", "E", "T">>,
      <<"L", "O", "C", "K">>,
      <<"C", "A", "L", "L">>,
      <<"D", "O">>,
      <<"R", "E", "F", "R", "E", "S", "H">>,
      <<"P", "R", "E", "P", "A", "R", "E">>,
      <<"E", "X", "E", "C", "U", "T", "E">>,
      <<"D", "E", "A", "L", "L", "O", "C", "A", "T", "E">> }

LockForUpdate ==
    <<"F", "O", "R", " ", "U", "P", "D", "A", "T", "E">>

LockForShare ==
    <<"F", "O", "R", " ", "S", "H", "A", "R", "E">>

LowerLetters ==
    <<"a", "b", "c", "d", "e", "f", "g", "h", "i", "j", "k", "l", "m", "n", "o", "p", "q", "r", "s", "t", "u", "v", "w", "x", "y", "z">>

UpperLetters ==
    <<"A", "B", "C", "D", "E", "F", "G", "H", "I", "J", "K", "L", "M", "N", "O", "P", "Q", "R", "S", "T", "U", "V", "W", "X", "Y", "Z">>

WordChars ==
    { LowerLetters[i] : i \in DOMAIN LowerLetters } \cup { UpperLetters[i] : i \in DOMAIN UpperLetters }
    \cup { "0", "1", "2", "3", "4", "5", "6", "7", "8", "9", "_" }

FragSelectUsers ==
    <<"S", "E", "L", "E", "C", "T", " ", "*", " ", "F", "R", "O", "M", " ", "u", "s", "e", "r", "s">>

FragDropUsers ==
    <<";", " ", "D", "R", "O", "P", " ", "T", "A", "B", "L", "E", " ", "u", "s", "e", "r", "s">>

FragDeleteUsers ==
    <<"D", "E", "L", "E", "T", "E", " ", "F", "R", "O", "M", " ", "u", "s", "e", "r", "s">>

FragLowerSettings ==
    <<"s", "e", "l", "e", "c", "t", " ", "u", "p", "d", "a", "t", "e", "d", "_", "a", "t", " ", "f", "r", "o", "m", " ", "s", "e", "t", "t", "i", "n", "g", "s">>

FragForUpdate ==
    <<" ", "F", "O", "R", " ", "U", "P", "D", "A", "T", "E">>

FragLiteral ==
    <<" ", "'", "d", "r", "o", "p", "'">>

FragComment ==
    <<" ", "-", "-", " ", "s", "e", "t">>

FragDescribe ==
    <<"D", "E", "S", "C", "R", "I", "B", "E", " ", "t">>

FragWith ==
    <<"W", "I", "T", "H">>

FragDo ==
    <<" ", "D", "O">>

FragCuments ==
    <<"C", "U", "M", "E", "N", "T", "S">>

FragParen ==
    <<"(">>

FragSpace ==
    <<" ">>

FragNewline ==
    <<"\n">>

Fragments ==
    { FragSelectUsers, FragDropUsers, FragDeleteUsers, FragLowerSettings, FragForUpdate, FragLiteral, FragComment, FragDescribe, FragWith, FragDo, FragCuments, FragParen, FragSpace, FragNewline }

RECURSIVE QueriesOf(_)
\* every concatenation of at most n fragments
QueriesOf(n) ==
    IF n = 0 THEN { <<>> }
    ELSE LET shorter == QueriesOf(n - 1)
         IN  shorter \cup { q \o f : q \in shorter, f \in Fragments }

\* String.prototype.toUpperCase on one character
UpperChar(c) ==
    IF \E i \in DOMAIN LowerLetters : LowerLetters[i] = c
    THEN UpperLetters[CHOOSE i \in DOMAIN LowerLetters : LowerLetters[i] = c]
    ELSE c

toUpperCase(s) == [i \in DOMAIN s |-> UpperChar(s[i])]

\* the characters \s matches among the modelled ones
IsSpace(c) == c \in {" ", "\t", "\n"}

\* String.prototype.trim
trim(s) ==
    LET keep == { i \in DOMAIN s : ~IsSpace(s[i]) }
    IN  IF keep = {} THEN <<>> ELSE SubSeq(s, SetMin(keep), SetMax(keep))

\* upperQuery.split(/[\s(]+/)[0]: the text before the first run of delimiters,
\* which is the empty string when the text starts with a delimiter
firstWordSkippingEmpty(upperQuery) ==
    LET word == { i \in DOMAIN upperQuery :
                     ~(IsSpace(upperQuery[i]) \/ upperQuery[i] = "(") }
    IN  IF word = {} THEN <<>>
        ELSE LET b == SetMin(word)
                 stop == { i \in DOMAIN upperQuery : i > b /\ i \notin word }
             IN  IF stop = {} THEN SubSeq(upperQuery, b, Len(upperQuery))
                 ELSE SubSeq(upperQuery, b, SetMin(stop) - 1)

firstWord(upperQuery) ==
    LET delim == { i \in DOMAIN upperQuery :
                      IsSpace(upperQuery[i]) \/ upperQuery[i] = "(" }
    IN  IF delim = {} THEN upperQuery
        ELSE SubSeq(upperQuery, 1, SetMin(delim) - 1)

\* String.prototype.includes
includes(s, sub) ==
    \E i \in 1..(Len(s) - Len(sub) + 1) : SubSeq(s, i, i + Len(sub) - 1) = sub

\* new RegExp(`\\b${keyword}\\b`).test(s) without the word boundaries
regexTestNoBoundary(keyword, s) == includes(s, keyword)

\* new RegExp(`\\b${keyword}\\b`).test(s): keyword begins and ends with a word
\* character, so \b holds where the neighbour is absent or not in [A-Za-z0-9_]
regexTest(keyword, s) ==
    \E i \in 1..(Len(s) - Len(keyword) + 1) :
        /\ SubSeq(s, i, i + Len(keyword) - 1) = keyword
        /\ (i = 1 \/ s[i - 1] \notin WordChars)
        /\ (i + Len(keyword) - 1 = Len(s) \/ s[i + Len(keyword)] \notin WordChars)

isMySqlReadOnlyQueryUtil(query) ==
    LET upperQuery == toUpperCase(trim(query))
    IN  IF firstWord(upperQuery) \notin ALLOWED_QUERY_PREFIXES THEN FALSE
        ELSE IF \E keyword \in FORBIDDEN_KEYWORDS : regexTest(keyword, upperQuery)
             THEN FALSE
             ELSE TRUE

PostgresAdapter_isReadOnlyQuery(query) ==
    LET upperQuery == toUpperCase(trim(query))
    IN  IF firstWord(upperQuery) \in allowedPrefixes
        THEN IF includes(upperQuery, LockForUpdate) \/ includes(upperQuery, LockForShare)
             THEN FALSE
             ELSE TRUE
        ELSE IF \E keyword \in forbiddenKeywords : regexTest(keyword, upperQuery)
             THEN FALSE
             ELSE FALSE

\* IDatabaseAdapter.isReadOnlyQuery, dispatched on the adapter's dialect
isReadOnlyQuery(databaseType, query) ==
    IF databaseType = "mysql" THEN isMySqlReadOnlyQueryUtil(query)
    ELSE PostgresAdapter_isReadOnlyQuery(query)

\* String.prototype.indexOf, counting from 1: 0 when the text does not occur
indexOf(s, sub) ==
    LET at == { i \in 1..(Len(s) - Len(sub) + 1) : SubSeq(s, i, i + Len(sub) - 1) = sub }
    IN  IF at = {} THEN 0 ELSE SetMin(at)

\* the isWholeWord test of utils.ts for the occurrence of keyword at index:
\* /[\s(]/.test(prevChar) && /[\s(;,]/.test(nextChar), a missing neighbour being ' '
IsWholeWordAt(upperQuery, keyword, index) ==
    LET prevChar == IF index = 1 THEN " " ELSE upperQuery[index - 1]
        nextChar == IF index + Len(keyword) > Len(upperQuery) THEN " "
                    ELSE upperQuery[index + Len(keyword)]
    IN  /\ (IsSpace(prevChar) \/ prevChar = "(")
        /\ (IsSpace(nextChar) \/ nextChar \in {"(", ";", ","})

\* utils.ts isReadOnlyQuery: the whole-word test is made at indexOf(keyword) only
UtilsIsReadOnlyQuery(query) ==
    LET upperQuery == toUpperCase(trim(query))
    IN  IF firstWord(upperQuery) \notin ALLOWED_QUERY_PREFIXES THEN FALSE
        ELSE IF \E keyword \in FORBIDDEN_KEYWORDS :
                   /\ indexOf(upperQuery, keyword) # 0
                   /\ IsWholeWordAt(upperQuery, keyword, indexOf(upperQuery, keyword))
             THEN FALSE
             ELSE TRUE

\* the classifier variables when another part of the system is examined
ROIdle ==
    /\ roQuery = <<>>
    /\ roDialect = "mysql"
    /\ roPc = "idle"
    /\ roResult = FALSE
    /\ roUtilsResult = FALSE

\* the execution variables before any call is made
ExecIdle ==
    /\ exPc = "idle"
    /\ exTool = "none"
    /\ exMethod = "none"
    /\ exDb = "mysql"
    /\ exQueries = <<>>
    /\ exStop = TRUE
    /\ exHasName = TRUE
    /\ exPoolInit = TRUE
    /\ exTables = 0
    /\ exI = 1
    /\ exStep = 1
    /\ exConns = <<>>
    /\ exCur = 0
    /\ exSent = <<>>
    /\ exErrors = 0
    /\ exResults = <<>>
    /\ exOrder = <<>>
    /\ exThrown = "none"
    /\ exResp = "none"
    /\ poolHeld = 0

\* the fetch variables when another part of the system is examined
FetchIdle ==
    /\ fDialect = "mysql"
    /\ fCat = [cols1 |-> <<>>, cols2 |-> <<>>, hasIndex |-> FALSE, fks |-> <<>>,
               pks |-> 0, orphan |-> FALSE]
    /\ fFilter = {}
    /\ fRows = <<>>
    /\ fPc = "idle"
    /\ fSchema = <<>>
    /\ fLog = <<>>
    /\ fKind = "none"
    /\ fValue = <<>>

\* the diff variables when another part of the system is examined
DiffIdle ==
    /\ dSource = <<>>
    /\ dTarget = <<>>
    /\ dPc = "idle"
    /\ dDiff = <<>>

\* the navigation variables when another part of the system is examined
NavIdle ==
    /\ nRels = <<>>
    /\ nSource = "A"
    /\ nTarget = "A"
    /\ nMaxHops = 1
    /\ nPc = "idle"
    /\ nConn = "null"
    /\ nAcquired = 0
    /\ nReleased = 0
    /\ nFetched = 0
    /\ nSearched = 0
    /\ nKind = "none"
    /\ nPaths = <<>>

\* the formatter variables when another part of the system is examined
FmtIdle ==
    /\ eFormatter = "index"
    /\ eError = <<>>
    /\ eDatabaseType = "undefined"
    /\ ePools = <<TRUE, TRUE>>
    /\ eIdentifier = <<>>
    /\ eTableName = <<>>
    /\ ePc = "idle"
    /\ eResponse = <<>>

\* the wrapper variables when another part of the system is examined
WrapIdle ==
    /\ wTool = ""
    /\ wBehaviour = <<>>
    /\ wPc = "idle"
    /\ wResult = <<>>
    /\ wCaught = <<>>
    /\ wOutcome = <<>>

\* the handler variables when another part of the system is examined
HandlerIdle ==
    /\ hTool = "none"
    /\ hDatabaseType = "mysql"
    /\ hPools = <<TRUE, TRUE>>
    /\ hHasName = TRUE
    /\ hResult = "rows"
    /\ hAdapter = "undefined"
    /\ hPc = "idle"
    /\ hOutcome = "none"

\* the search variables when another part of the system is examined
BfsIdle ==
    /\ bAdjList = <<>>
    /\ bEndNode = "A"
    /\ bMaxDepth = 1
    /\ bQueue = <<>>
    /\ bVisitedInPath = {}
    /\ bPaths = <<>>
    /\ bPc = "idle"

\* the key variables when another part of the system is examined
KeyIdle ==
    /\ kKind = "index"
    /\ kRows = <<>>
    /\ kPc = "idle"
    /\ kTemp = <<>>

\* the relationship variables when another part of the system is examined
RelIdle ==
    /\ rDeclared = {}
    /\ rTables = {}
    /\ rPc = "idle"
    /\ rRows = <<>>
    /\ rKind = "none"
    /\ rValue = <<>>

\* the pool variables when another part of the system is examined
PoolIdle ==
    /\ plSize = 1
    /\ plHeld = <<>>
    /\ plQueue = <<>>
    /\ cDb = <<>>
    /\ cLeft = <<>>
    /\ cPc = <<>>
    /\ cHeld = <<>>
    /\ cOutcome = <<>>

InitRO ==
    /\ ExecIdle
    /\ FetchIdle
    /\ DiffIdle
    /\ NavIdle
    /\ FmtIdle
    /\ WrapIdle
    /\ HandlerIdle
    /\ BfsIdle
    /\ KeyIdle
    /\ RelIdle
    /\ PoolIdle
    /\ roQuery \in QueriesOf(MaxFragments)
    /\ roDialect \in DatabaseTypes
    /\ roPc = "input"
    /\ roResult = FALSE
    /\ roUtilsResult = FALSE

Classify ==
    /\ roPc = "input"
    /\ roPc' = "classified"
    /\ roResult' = isReadOnlyQuery(roDialect, roQuery)
    /\ roUtilsResult' = UtilsIsReadOnlyQuery(roQuery)
    /\ UNCHANGED <<roQuery, roDialect>>
    /\ UNCHANGED otherThanRO

NextRO == Classify

SpecRO == InitRO /\ [][NextRO]_vars

(***************************************************************************)
(* Classifier properties                                                   *)
(***************************************************************************)
\* the text the classifier inspects
Normalized(q) == toUpperCase(trim(q))

AllowedOf(databaseType) ==
    IF databaseType = "mysql" THEN ALLOWED_QUERY_PREFIXES ELSE allowedPrefixes

DenylistOf(databaseType) ==
    IF databaseType = "mysql" THEN FORBIDDEN_KEYWORDS ELSE forbiddenKeywords

\* the text begins with one of the prefixes P, ended by whitespace, '(' or the end
StartsWithAllowed(u, P) ==
    \E p \in P :
        /\ Len(u) >= Len(p)
        /\ SubSeq(u, 1, Len(p)) = p
        /\ (Len(u) = Len(p) \/ IsSpace(u[Len(p) + 1]) \/ u[Len(p) + 1] = "(")

\* position i starts a maximal run of word characters
WordStart(u, i) ==
    u[i] \in WordChars /\ (i = 1 \/ u[i - 1] \notin WordChars)

\* the last position of the run of word characters that contains position i
WordEnd(u, i) ==
    SetMin({ j \in i..Len(u) : j = Len(u) \/ u[j + 1] \notin WordChars })

\* some whole word of u (a maximal run of word characters) is in K
HasWord(u, K) ==
    \E i \in DOMAIN u : WordStart(u, i) /\ SubSeq(u, i, WordEnd(u, i)) \in K

\* C1: in both adapters, a statement with an allowed first token that contains a
\* denylisted keyword as a whole word (after a ';', in a literal, in a comment)
\* is classified as not read-only.
C1_DenylistedWordRejected ==
    (/\ roPc = "classified"
     /\ StartsWithAllowed(Normalized(roQuery), AllowedOf(roDialect))
     /\ HasWord(Normalized(roQuery), DenylistOf(roDialect)))
    => roResult = FALSE

\* C2: in both adapters, a statement whose first token, after trimming and
\* upper-casing, is not an allowed prefix is classified as not read-only.
C2_DisallowedPrefixRejected ==
    (/\ roPc = "classified"
     /\ ~StartsWithAllowed(Normalized(roQuery), AllowedOf(roDialect)))
    => roResult = FALSE

C2_Witness ==
    /\ roPc = "classified"
    /\ roDialect = "postgres"
    /\ Len(roQuery) > 1
    /\ roQuery[1] = "("
    /\ StartsWithAllowed(Tail(Normalized(roQuery)), allowedPrefixes)
    /\ ~StartsWithAllowed(Normalized(roQuery), allowedPrefixes)
    /\ roResult = FALSE

\* C3: the MySQL adapter accepts every statement with an allowed first token in
\* which no denylisted keyword occurs as a whole word; a keyword that is only a
\* part of a longer identifier does not cause rejection.
C3_MySqlAcceptsCleanStatements ==
    (/\ roPc = "classified"
     /\ roDialect = "mysql"
     /\ StartsWithAllowed(Normalized(roQuery), ALLOWED_QUERY_PREFIXES)
     /\ ~HasWord(Normalized(roQuery), FORBIDDEN_KEYWORDS))
    => roResult = TRUE

C3_Witness ==
    /\ roPc = "classified"
    /\ roDialect = "mysql"
    /\ \E keyword \in FORBIDDEN_KEYWORDS : includes(Normalized(roQuery), keyword)
    /\ ~HasWord(Normalized(roQuery), FORBIDDEN_KEYWORDS)
    /\ roResult = TRUE

(***************************************************************************)
(* Execution handlers (tools/execution.ts) and the adapters' scoped        *)
(* connection use (db_adapter.ts).  One call runs at a time; every await   *)
(* of the code is one step, and every statement sent to the server either  *)
(* succeeds or fails.                                                      *)
(***************************************************************************)
HandlerTools == {"execute_query", "prepare_statement", "execute_batch", "explain_query"}

\* the tools that classify their queries before running them
CheckedTools == {"execute_query", "prepare_statement", "execute_batch"}

AdapterMethods ==
    {"executeQuery", "getSchemaDetails", "getIndexes", "getIndexesOfTable",
     "getConstraints", "getTableColumns", "getRelationships", "explainQuery",
     "getPerformanceMetrics"}

\* the SQL texts callers hand to the execution tools
CallerQueries == { FragSelectUsers, FragDeleteUsers, FragSelectUsers \o FragDropUsers }

RECURSIVE BatchesOf(_)
\* the non-empty query lists of at most n queries
BatchesOf(n) ==
    IF n = 1 THEN { <<q>> : q \in CallerQueries }
    ELSE LET shorter == BatchesOf(n - 1)
         IN  shorter \cup { Append(b, q) : b \in shorter, q \in CallerQueries }

Stmt(name, swallow) == [stmt |-> name, swallow |-> swallow]

RECURSIVE ShowIndexPerTable(_)
\* getIndexes without a table: one SHOW INDEX per table, its failure caught and logged
ShowIndexPerTable(n) ==
    IF n = 0 THEN <<>> ELSE Append(ShowIndexPerTable(n - 1), Stmt("SHOW INDEX", TRUE))

\* the statements an adapter method sends on its connection, in order
MySqlAdapterPlan(method, nTables) ==
    CASE method \in {"executeQuery", "explainQuery"} ->
            << Stmt("USE", FALSE), Stmt("QUERY", FALSE) >>
      [] method = "getSchemaDetails" ->
            << Stmt("COLUMNS", FALSE), Stmt("INDEXES", FALSE), Stmt("CONSTRAINTS", FALSE) >>
      [] method = "getIndexesOfTable" -> << Stmt("SHOW INDEX", FALSE) >>
      [] method = "getIndexes" ->
            << Stmt("SHOW TABLES", FALSE) >> \o ShowIndexPerTable(nTables)
      [] method = "getTableColumns" -> << Stmt("USE", FALSE), Stmt("DESCRIBE", FALSE) >>
      [] OTHER -> << Stmt("CATALOG", FALSE) >>

PostgresAdapterPlan(method) ==
    CASE method \in {"executeQuery", "explainQuery"} -> << Stmt("QUERY", FALSE) >>
      [] method = "getSchemaDetails" ->
            << Stmt("COLUMNS", FALSE), Stmt("INDEXES", FALSE), Stmt("CONSTRAINTS", FALSE) >>
      [] method = "getPerformanceMetrics" ->
            << Stmt("ACTIVITY", FALSE), Stmt("DBSTATS", FALSE) >>
      [] OTHER -> << Stmt("CATALOG", FALSE) >>

AdapterPlan(databaseType, method, nTables) ==
    IF databaseType = "mysql" THEN MySqlAdapterPlan(method, nTables)
    ELSE PostgresAdapterPlan(method)

\* pool.getConnection() / pool.connect() resolved: the call now holds one more client
AcquireConn ==
    /\ exConns' = Append(exConns, 0)
    /\ exCur' = Len(exConns) + 1
    /\ poolHeld' = poolHeld + 1

\* if (client) client.release()
ReleaseConn ==
    /\ IF exCur # 0
       THEN /\ exConns' = [exConns EXCEPT ![exCur] = @ + 1]
            /\ poolHeld' = poolHeld - 1
       ELSE UNCHANGED <<exConns, poolHeld>>
    /\ UNCHANGED exCur

KeepConn == UNCHANGED <<exConns, exCur, poolHeld>>

Send(name, ok) == exSent' = Append(exSent, [stmt |-> name, ok |-> ok])

\* the pre-check loop of executeBatchHandler that looks at the first query only
SomeQueryRejectedFirstOnly(databaseType, queries) ==
    ~isReadOnlyQuery(databaseType, queries[1])

\* !adapter.isReadOnlyQuery(query), for the one query or for any query of the batch
SomeQueryRejected(databaseType, queries) ==
    \E i \in DOMAIN queries : ~isReadOnlyQuery(databaseType, queries[i])

\* the response built after the batch: isError: errorsEncountered.length > 0
BatchSummary(errors) == IF errors > 0 THEN "error" ELSE "ok"

InitExec ==
    /\ ExecIdle
    /\ ROIdle
    /\ FetchIdle
    /\ DiffIdle
    /\ NavIdle
    /\ FmtIdle
    /\ WrapIdle
    /\ HandlerIdle
    /\ BfsIdle
    /\ KeyIdle
    /\ RelIdle
    /\ PoolIdle

\* a caller invokes one of the execution tools
StartHandler ==
    /\ exPc = "idle"
    /\ exTool' \in HandlerTools
    /\ exMethod' = "none"
    /\ exDb' \in DatabaseTypes
    /\ exQueries' \in (IF exTool' = "execute_batch" THEN BatchesOf(MaxBatch) ELSE BatchesOf(1))
    /\ exStop' \in (IF exTool' = "execute_batch" THEN BOOLEAN ELSE {TRUE})
    /\ exHasName' \in BOOLEAN
    /\ exPoolInit' \in BOOLEAN
    /\ exTables' = 0
    /\ exI' = 1
    /\ exStep' = 1
    /\ exConns' = <<>>
    /\ exCur' = 0
    /\ exSent' = <<>>
    /\ exErrors' = 0
    /\ exResults' = <<>>
    /\ exOrder' = <<>>
    /\ exThrown' = "none"
    /\ exResp' = "none"
    /\ exPc' = "init"
    /\ UNCHANGED poolHeld
    /\ UNCHANGED otherThanExec

\* another handler invokes an adapter method on a constructed adapter
StartAdapterCall ==
    /\ exPc = "idle"
    /\ exTool' = "adapter"
    /\ exMethod' \in AdapterMethods
    /\ exDb' \in DatabaseTypes
    /\ exQueries' = <<>>
    /\ exStop' = TRUE
    /\ exHasName' \in (IF exMethod' = "getPerformanceMetrics" /\ exDb' = "postgres"
                       THEN BOOLEAN ELSE {TRUE})
    /\ exPoolInit' = TRUE
    /\ exTables' \in (IF exMethod' = "getIndexes" /\ exDb' = "mysql"
                      THEN 0..MaxTables ELSE {0})
    /\ exI' = 1
    /\ exStep' = 1
    /\ exConns' = <<>>
    /\ exCur' = 0
    /\ exSent' = <<>>
    /\ exErrors' = 0
    /\ exResults' = <<>>
    /\ exOrder' = <<>>
    /\ exThrown' = "none"
    /\ exResp' = "none"
    /\ exPc' = "ad_acquire"
    /\ UNCHANGED poolHeld
    /\ UNCHANGED otherThanExec

\* the first try block of the handlers: adapter construction, parameter checks
\* and, for PostgreSQL, pgPool.connect()
HandlerInit ==
    /\ exPc = "init"
    /\ \E connected \in BOOLEAN :
         IF ~exPoolInit
         THEN /\ exResp' = "error"
                   /\ exPc' = "done"
                   /\ KeepConn
         ELSE IF exDb = "mysql"
         THEN IF ~exHasName
              THEN /\ exResp' = "error"
                   /\ exPc' = "done"
                   /\ KeepConn
              ELSE /\ exPc' = (IF exTool \in CheckedTools THEN "check" ELSE "my_call")
                   /\ KeepConn
                   /\ UNCHANGED exResp
         ELSE IF connected
              THEN /\ AcquireConn
                   /\ exPc' = (IF exTool \in CheckedTools THEN "check" ELSE "pg_begin")
                   /\ UNCHANGED exResp
              ELSE /\ exResp' = "error"
                   /\ exPc' = "done"
                   /\ KeepConn
    /\ UNCHANGED <<exArgs, exOrder, exStep, exMethod, exI, exSent, exErrors, exResults, exThrown>>
    /\ UNCHANGED otherThanExec

\* the read-only check that leaves the client it holds checked out
ReadOnlyCheckNoRelease ==
    /\ exPc = "check"
    /\ IF SomeQueryRejected(exDb, exQueries)
       THEN /\ KeepConn
            /\ exResp' = "error"
            /\ exPc' = "done"
       ELSE /\ KeepConn
            /\ UNCHANGED exResp
            /\ exPc' = (IF exDb = "postgres" THEN "pg_begin" ELSE "my_call")
    /\ UNCHANGED <<exArgs, exOrder, exStep, exMethod, exI, exSent, exErrors, exResults, exThrown>>
    /\ UNCHANGED otherThanExec

\* if (!adapter.isReadOnlyQuery(query)) { if (pgClient) pgClient.release(); return error }
ReadOnlyCheck ==
    /\ exPc = "check"
    /\ IF SomeQueryRejected(exDb, exQueries)
       THEN /\ ReleaseConn
            /\ exResp' = "error"
            /\ exPc' = "done"
       ELSE /\ KeepConn
            /\ UNCHANGED exResp
            /\ exPc' = (IF exDb = "postgres" THEN "pg_begin" ELSE "my_call")
    /\ UNCHANGED <<exArgs, exOrder, exStep, exMethod, exI, exSent, exErrors, exResults, exThrown>>
    /\ UNCHANGED otherThanExec

\* await pgClient.query('BEGIN')
PgBegin ==
    /\ exPc = "pg_begin"
    /\ \E ok \in BOOLEAN :
         /\ Send("BEGIN", ok)
         /\ exPc' = (IF ok THEN "pg_setlocal" ELSE "pg_catch")
         /\ exThrown' = (IF ok THEN exThrown ELSE "error")
    /\ KeepConn
    /\ UNCHANGED <<exArgs, exOrder, exStep, exMethod, exI, exErrors, exResults, exResp>>
    /\ UNCHANGED otherThanExec

\* await pgClient.query(`SET LOCAL search_path TO ...`)
PgSetLocal ==
    /\ exPc = "pg_setlocal"
    /\ \E ok \in BOOLEAN :
         /\ Send("SET LOCAL", ok)
         /\ exPc' = (IF ok THEN "pg_query" ELSE "pg_catch")
         /\ exThrown' = (IF ok THEN exThrown ELSE "error")
    /\ KeepConn
    /\ UNCHANGED <<exArgs, exOrder, exStep, exMethod, exI, exErrors, exResults, exResp>>
    /\ UNCHANGED otherThanExec

\* a loop that ends after its first query
AfterBatchQueryOnce(i, n, errors, stop) == "pg_commit"

\* where the batch goes once query i is dealt with and the loop goes on
AfterBatchQuery(i, n, errors, stop) ==
    IF i < n THEN "pg_query"
    ELSE IF errors = 0 \/ ~stop THEN "pg_commit" ELSE "pg_finally"

\* the caller's statement in execute_query and explain_query
PgQuerySingle ==
    /\ exPc = "pg_query"
    /\ exTool # "execute_batch"
    /\ exOrder' = Append(exOrder, exI)
    /\ \E ok \in BOOLEAN :
         /\ Send("QUERY", ok)
         /\ exPc' = (IF ok THEN "pg_commit" ELSE "pg_catch")
         /\ exThrown' = (IF ok THEN exThrown ELSE "error")
    /\ KeepConn
    /\ UNCHANGED <<exArgs, exStep, exMethod, exI, exErrors, exResults, exResp>>
    /\ UNCHANGED otherThanExec

\* one iteration of the PostgreSQL loop of executeBatchHandler
PgQueryBatch ==
    /\ exPc = "pg_query"
    /\ exTool = "execute_batch"
    /\ exOrder' = Append(exOrder, exI)
    /\ \E ok \in BOOLEAN :
         /\ Send("QUERY", ok)
         /\ exResults' = Append(exResults, ok)
         /\ exErrors' = (IF ok THEN exErrors ELSE exErrors + 1)
         /\ IF ~ok /\ exStop
            THEN /\ exPc' = "pg_stop_rollback"
                 /\ UNCHANGED exI
            ELSE /\ exPc' = AfterBatchQuery(exI, Len(exQueries), exErrors', exStop)
                 /\ exI' = exI + 1
    /\ KeepConn
    /\ UNCHANGED <<exArgs, exStep, exMethod, exThrown, exResp>>
    /\ UNCHANGED otherThanExec

\* stop_on_error: await pgClient.query('ROLLBACK'); throw new Error('Batch stopped ...')
PgStopRollback ==
    /\ exPc = "pg_stop_rollback"
    /\ \E ok \in BOOLEAN :
         /\ Send("ROLLBACK", ok)
         /\ exThrown' = (IF ok THEN "stopped" ELSE "error")
         /\ exPc' = (IF ok THEN "pg_finally" ELSE "pg_catch")
    /\ KeepConn
    /\ UNCHANGED <<exArgs, exOrder, exStep, exMethod, exI, exErrors, exResults, exResp>>
    /\ UNCHANGED otherThanExec

\* await pgClient.query('COMMIT')
PgCommit ==
    /\ exPc = "pg_commit"
    /\ \E ok \in BOOLEAN :
         /\ Send("COMMIT", ok)
         /\ exPc' = (IF ok THEN "pg_finally" ELSE "pg_catch")
         /\ exThrown' = (IF ok THEN exThrown ELSE "error")
         /\ exResp' = (IF ok /\ exTool # "execute_batch" THEN "ok" ELSE exResp)
    /\ KeepConn
    /\ UNCHANGED <<exArgs, exOrder, exStep, exMethod, exI, exErrors, exResults>>
    /\ UNCHANGED otherThanExec

\* a catch block that only answers, without the ROLLBACK
PgCatchWithoutRollback ==
    /\ exPc = "pg_catch"
    /\ exResp' = "error"
    /\ exPc' = "pg_finally"
    /\ KeepConn
    /\ UNCHANGED <<exArgs, exOrder, exStep, exMethod, exI, exSent, exErrors, exResults, exThrown>>
    /\ UNCHANGED otherThanExec

\* the catch block: try { ROLLBACK } catch { log }; return adapter.formatError(...)
PgCatch ==
    /\ exPc = "pg_catch"
    /\ \E ok \in BOOLEAN : Send("ROLLBACK", ok)
    /\ exResp' = "error"
    /\ exPc' = "pg_finally"
    /\ KeepConn
    /\ UNCHANGED <<exArgs, exOrder, exStep, exMethod, exI, exErrors, exResults, exThrown>>
    /\ UNCHANGED otherThanExec

\* finally { if (pgClient) pgClient.release() }, then the batch summary if nothing
\* was returned yet
PgFinally ==
    /\ exPc = "pg_finally"
    /\ ReleaseConn
    /\ exResp' = (IF exResp # "none" THEN exResp ELSE BatchSummary(exErrors))
    /\ exPc' = "done"
    /\ UNCHANGED <<exArgs, exOrder, exStep, exMethod, exI, exSent, exErrors, exResults, exThrown>>
    /\ UNCHANGED otherThanExec

\* MySQL: results = await adapter.executeQuery(...) (explainQuery delegates to it)
MyCall ==
    /\ exPc = "my_call"
    /\ exOrder' = Append(exOrder, exI)
    /\ exMethod' = "executeQuery"
    /\ exCur' = 0
    /\ exThrown' = "none"
    /\ exPc' = "ad_acquire"
    /\ UNCHANGED <<exArgs, exStep, exI, exConns, exSent, exErrors, exResults, exResp, poolHeld>>
    /\ UNCHANGED otherThanExec

\* an adapter method: connection = await this.pool.getConnection()
AdAcquire ==
    /\ exPc = "ad_acquire"
    /\ \E ok \in BOOLEAN :
         IF ~ok
         THEN /\ KeepConn
              /\ exThrown' = "error"
              /\ exPc' = "ad_exit"
         ELSE /\ AcquireConn
              /\ IF exMethod = "getPerformanceMetrics" /\ exDb = "postgres" /\ ~exHasName
                 THEN /\ exThrown' = "error"
                      /\ exPc' = "ad_finally"
                 ELSE /\ UNCHANGED exThrown
                      /\ exPc' = "ad_stmt"
    /\ exStep' = 1
    /\ UNCHANGED <<exArgs, exOrder, exMethod, exI, exSent, exErrors, exResults, exResp>>
    /\ UNCHANGED otherThanExec

\* an adapter method: the next statement of its plan on the held connection
AdStmt ==
    /\ exPc = "ad_stmt"
    /\ LET plan == AdapterPlan(exDb, exMethod, exTables)
       IN  \E ok \in BOOLEAN :
             /\ Send(plan[exStep].stmt, ok)
             /\ IF ~ok /\ ~plan[exStep].swallow
                THEN /\ exThrown' = "error"
                     /\ exPc' = "ad_finally"
                     /\ UNCHANGED exStep
                ELSE /\ UNCHANGED exThrown
                     /\ exStep' = exStep + 1
                     /\ exPc' = (IF exStep = Len(plan) THEN "ad_finally" ELSE "ad_stmt")
    /\ KeepConn
    /\ UNCHANGED <<exArgs, exOrder, exMethod, exI, exErrors, exResults, exResp>>
    /\ UNCHANGED otherThanExec

\* an adapter method: finally { if (connection) connection.release() }
AdFinally ==
    /\ exPc = "ad_finally"
    /\ ReleaseConn
    /\ exPc' = "ad_exit"
    /\ UNCHANGED <<exArgs, exOrder, exMethod, exI, exStep, exSent, exErrors, exResults, exThrown, exResp>>
    /\ UNCHANGED otherThanExec

\* the adapter method returns or throws to a caller outside the execution tools
AdapterReturn ==
    /\ exPc = "ad_exit"
    /\ exTool = "adapter"
    /\ exResp' = (IF exThrown = "none" THEN "ok" ELSE "throw")
    /\ exPc' = "done"
    /\ KeepConn
    /\ UNCHANGED <<exArgs, exOrder, exMethod, exI, exStep, exSent, exErrors, exResults, exThrown>>
    /\ UNCHANGED otherThanExec

\* MySQL execute_query / explain_query: the result text, or catch -> formatError
MyQueryReturn ==
    /\ exPc = "ad_exit"
    /\ exTool \in HandlerTools \ {"execute_batch"}
    /\ exResp' = (IF exThrown = "none" THEN "ok" ELSE "error")
    /\ exPc' = "done"
    /\ KeepConn
    /\ UNCHANGED <<exArgs, exOrder, exMethod, exI, exStep, exSent, exErrors, exResults, exThrown>>
    /\ UNCHANGED otherThanExec

\* MySQL execute_batch: the end of one loop iteration, and the summary after the loop
MyBatchReturn ==
    /\ exPc = "ad_exit"
    /\ exTool = "execute_batch"
    /\ LET ok == (exThrown = "none")
           errors == IF ok THEN exErrors ELSE exErrors + 1
           more == exI < Len(exQueries) /\ ~(~ok /\ exStop)
       IN  /\ exResults' = Append(exResults, ok)
           /\ exErrors' = errors
           /\ exI' = exI + 1
           /\ exPc' = (IF more THEN "my_call" ELSE "done")
           /\ exResp' = (IF more THEN exResp ELSE BatchSummary(errors))
    /\ KeepConn
    /\ UNCHANGED <<exArgs, exOrder, exMethod, exStep, exSent, exThrown>>
    /\ UNCHANGED otherThanExec

\* the response has been handed to the caller
Return ==
    /\ exPc = "done"
    /\ exPc' = "idle"
    /\ UNCHANGED <<exArgs, exOrder, exMethod, exI, exStep, exConns, exCur, exSent, exErrors,
                   exResults, exThrown, exResp, poolHeld>>
    /\ UNCHANGED otherThanExec

NextExec ==
    \/ StartHandler
    \/ StartAdapterCall
    \/ HandlerInit
    \/ ReadOnlyCheck
    \/ PgBegin
    \/ PgSetLocal
    \/ PgQuerySingle
    \/ PgQueryBatch
    \/ PgStopRollback
    \/ PgCommit
    \/ PgCatch
    \/ PgFinally
    \/ MyCall
    \/ AdAcquire
    \/ AdStmt
    \/ AdFinally
    \/ AdapterReturn
    \/ MyQueryReturn
    \/ MyBatchReturn
    \/ Return

SpecExec == InitExec /\ [][NextExec]_vars

(***************************************************************************)
(* Execution properties                                                    *)
(***************************************************************************)
\* C4: in execute_query, prepare_statement and execute_batch, when the classifier
\* rejects the query (or any query of the batch), no statement is sent to the
\* database during the call and the call ends with an error response.
C4_RejectedQuerySendsNothing ==
    (/\ exTool \in CheckedTools
     /\ \E i \in DOMAIN exQueries : ~isReadOnlyQuery(exDb, exQueries[i]))
    => (/\ exSent = <<>>
        /\ (exPc \in {"done", "idle"} => exResp = "error"))

C4_Witness ==
    /\ exPc = "done"
    /\ exTool = "execute_batch"
    /\ exDb = "postgres"
    /\ Len(exQueries) = 2
    /\ isReadOnlyQuery(exDb, exQueries[1])
    /\ ~isReadOnlyQuery(exDb, exQueries[2])
    /\ Len(exConns) = 1
    /\ exSent = <<>>
    /\ exResp = "error"

\* C5: every connection a call acquires is released exactly once before the call
\* ends, on every exit path, and no connection is held between calls.
C5_ScopedAcquisition ==
    /\ \A k \in DOMAIN exConns : exConns[k] <= 1
    /\ (exPc \in {"done", "idle"} =>
            /\ \A k \in DOMAIN exConns : exConns[k] = 1
            /\ poolHeld = 0)

C5_Witness ==
    /\ exPc = "done"
    /\ exTool = "execute_batch"
    /\ exDb = "postgres"
    /\ Len(exConns) = 1
    /\ exConns[1] = 1
    /\ \E k \in DOMAIN exSent : exSent[k].stmt = "COMMIT" /\ ~exSent[k].ok
    /\ \E k \in DOMAIN exSent : exSent[k].stmt = "ROLLBACK" /\ ~exSent[k].ok
    /\ poolHeld = 0

\* C6: in the PostgreSQL paths of execute_query, explain_query and execute_batch,
\* when a statement sent between BEGIN and COMMIT fails, a ROLLBACK is sent on the
\* client afterwards, before its release, and no COMMIT is sent.
C6_FailureInBracketRollsBack ==
    (/\ exPc = "done"
     /\ exDb = "postgres"
     /\ exTool \in HandlerTools)
    => \A k \in DOMAIN exSent :
          (exSent[k].stmt \in {"SET LOCAL", "QUERY"} /\ ~exSent[k].ok)
          => (/\ \E j \in DOMAIN exSent : j > k /\ exSent[j].stmt = "ROLLBACK"
              /\ \A j \in DOMAIN exSent : exSent[j].stmt # "COMMIT")

(***************************************************************************)
(* Catalog fetchers and relationships (db_adapter.ts).  The catalog is the *)
(* input: table t1 with its columns in ordinal order, the referenced table *)
(* t2, an optional index on t1 and at most one foreign key from t1 to a    *)
(* unique key of t2.  A catalog query is modelled by the rows its SQL      *)
(* returns; a JavaScript Map by the sequence of its entries in insertion   *)
(* order.                                                                  *)
(***************************************************************************)
ColumnNames == <<"a", "b", "c", "d">>

RefColumnNames == <<"p", "q", "r", "s">>

\* the sequences of 1..n distinct elements of S
DistinctSeqs(S, n) ==
    UNION { { s \in [1..k -> S] : \A i, j \in 1..k : i # j => s[i] # s[j] } : k \in 1..n }

\* the permutations of 1..n
Perms(n) == { p \in [1..n -> 1..n] : \A i, j \in 1..n : i # j => p[i] # p[j] }

\* every order in which the rows of the set S can arrive
Orderings(S) ==
    { s \in [1..Cardinality(S) -> S] :
        \A i, j \in 1..Cardinality(S) : i # j => s[i] # s[j] }

Reverse(s) == [i \in DOMAIN s |-> s[Len(s) + 1 - i]]

\* the foreign keys t1 can declare: local column cols[i] references the column
\* at position piuc[i] (position_in_unique_constraint) of the referenced key
ForeignKeysOver(cols1) ==
    UNION { { [cols |-> c, refKey |-> SubSeq(RefColumnNames, 1, Len(c)), piuc |-> p] :
                p \in Perms(Len(c)) } :
            c \in DistinctSeqs({ cols1[i] : i \in DOMAIN cols1 }, Len(cols1)) }

\* catalogs that vary the foreign key of t1
ForeignKeyCatalogs ==
    UNION { { [cols1 |-> c1, cols2 |-> SubSeq(RefColumnNames, 1, MaxCols),
               hasIndex |-> ix, fks |-> f, pks |-> 0, orphan |-> FALSE] :
                ix \in BOOLEAN,
                f \in { <<>> } \cup { <<fk>> : fk \in ForeignKeysOver(c1) } } :
            c1 \in DistinctSeqs({ ColumnNames[i] : i \in 1..MaxCols }, MaxCols) }

\* catalogs that vary the keys of t1: pks PRIMARY KEY constraint names on its first
\* column, and, with orphan, a table t3 that the index and constraint queries
\* report although the columns query returned no row for it
KeyCatalogs ==
    UNION { { [cols1 |-> c1, cols2 |-> SubSeq(RefColumnNames, 1, MaxCols),
               hasIndex |-> TRUE, fks |-> f, pks |-> n, orphan |-> o] :
                n \in 0..MaxPrimaryKeys, o \in BOOLEAN,
                f \in { <<>>, << [cols |-> <<c1[1]>>, refKey |-> <<RefColumnNames[1]>>,
                                   piuc |-> <<1>>] >> } } :
            c1 \in DistinctSeqs({ ColumnNames[i] : i \in 1..MaxCols }, MaxCols) }

Catalogs == ForeignKeyCatalogs \cup KeyCatalogs

\* the table filters callers pass: none, an existing table, a non-existent table
TableFilters == { {}, {"t1"}, {"t9"} }

\* hasSpecificTables ? TABLE_NAME IN (requestedTables) : true
TablePasses(t, requestedTables) == requestedTables = {} \/ t \in requestedTables

FilterRows(rows, requestedTables) == { r \in rows : TablePasses(r.table, requestedTables) }

FilterRowSeq(rows, requestedTables) ==
    SelectSeq(rows, LAMBDA r : TablePasses(r.table, requestedTables))

\* the referenced column the catalog declares for local column c of foreign key fk
DeclaredReference(fk, c) ==
    fk.refKey[fk.piuc[CHOOSE i \in DOMAIN fk.cols : fk.cols[i] = c]]

\* --- JavaScript Map, in insertion order ---
MapHas(m, k) == \E i \in DOMAIN m : m[i].key = k

MapGet(m, k) == m[CHOOSE i \in DOMAIN m : m[i].key = k].value

\* a Map.set that puts a new key in front of the older ones
MapSetFront(m, k, v) ==
    IF MapHas(m, k)
    THEN [i \in DOMAIN m |-> IF m[i].key = k THEN [key |-> k, value |-> v] ELSE m[i]]
    ELSE <<[key |-> k, value |-> v]>> \o m

\* Map.prototype.set: an existing key keeps its place, a new key goes last
MapSet(m, k, v) ==
    IF MapHas(m, k)
    THEN [i \in DOMAIN m |-> IF m[i].key = k THEN [key |-> k, value |-> v] ELSE m[i]]
    ELSE Append(m, [key |-> k, value |-> v])

MapKeys(m) == [i \in DOMAIN m |-> m[i].key]

\* Map<number, string>.set(position, name) on a position-indexed map
PutAt(f, position, name) == (position :> name) @@ f

RECURSIVE SortedValuesDescending(_)
\* the values of a position-indexed map by descending position
SortedValuesDescending(f) ==
    IF DOMAIN f = {} THEN <<>>
    ELSE LET k == SetMax(DOMAIN f)
         IN  <<f[k]>> \o SortedValuesDescending([x \in (DOMAIN f) \ {k} |-> f[x]])

RECURSIVE SortedValues(_)
\* Array.from(map.entries()).sort((a, b) => a[0] - b[0]).map(entry => entry[1])
SortedValues(f) ==
    IF DOMAIN f = {} THEN <<>>
    ELSE LET k == SetMin(DOMAIN f)
         IN  <<f[k]>> \o SortedValues([x \in (DOMAIN f) \ {k} |-> f[x]])

\* --- the rows of the catalog queries ---
\* columns query: ORDER BY TABLE_NAME, ORDINAL_POSITION
ColumnRows(cat) ==
    [i \in DOMAIN cat.cols1 |-> [table |-> "t1", column |-> cat.cols1[i], ordinal |-> i]]
    \o [i \in DOMAIN cat.cols2 |-> [table |-> "t2", column |-> cat.cols2[i], ordinal |-> i]]

\* the index of t1, over its columns in reverse ordinal order
IndexColumns(cat) == IF cat.hasIndex THEN Reverse(cat.cols1) ELSE <<>>

\* INFORMATION_SCHEMA.STATISTICS: one row per column of the index
MySqlIndexRows(cat) ==
    { [table |-> "t1", index |-> "ix", column |-> IndexColumns(cat)[i], seq |-> i] :
        i \in DOMAIN IndexColumns(cat) }
    \cup (IF cat.orphan THEN { [table |-> "t3", index |-> "ix3", column |-> "z", seq |-> 1] }
          ELSE {})

\* pg_index: one row per index, with the array of its column definitions
PostgresIndexRows(cat) ==
    (IF cat.hasIndex
     THEN { [table |-> "t1", index |-> "ix", columns |-> IndexColumns(cat)] }
     ELSE {})
    \cup (IF cat.orphan THEN { [table |-> "t3", index |-> "ix3", columns |-> <<"z">>] }
          ELSE {})

PrimaryKeyNames == <<"pk1", "pk2", "pk3", "pk4">>

\* the rows of the PRIMARY KEY constraints of t1 and of the UNIQUE constraint of t3
KeyConstraintRows(cat) ==
    { [table |-> "t1", name |-> PrimaryKeyNames[n], type |-> "PRIMARY KEY",
       column |-> cat.cols1[1], ordinal |-> 1, refTable |-> "null",
       refColumn |-> "null", refOrdinal |-> 0] : n \in 1..cat.pks }
    \cup (IF cat.orphan
          THEN { [table |-> "t3", name |-> "uq3", type |-> "UNIQUE", column |-> "z",
                  ordinal |-> 1, refTable |-> "null", refColumn |-> "null",
                  refOrdinal |-> 0] }
          ELSE {})

\* TABLE_CONSTRAINTS joined with KEY_COLUMN_USAGE: one row per local column, with
\* REFERENCED_COLUMN_NAME on the same row
MySqlConstraintRows(cat) ==
    KeyConstraintRows(cat) \cup
    UNION { { [table |-> "t1", name |-> "fk1", type |-> "FOREIGN KEY",
               column |-> fk.cols[i], ordinal |-> i, refTable |-> "t2",
               refColumn |-> fk.refKey[fk.piuc[i]], refOrdinal |-> 0] :
                i \in DOMAIN fk.cols } :
            fk \in { cat.fks[n] : n \in DOMAIN cat.fks } }

\* table_constraints joined with key_column_usage kcu and, through
\* kcu.position_in_unique_constraint = kcu_ref.ordinal_position, with kcu_ref
PostgresConstraintRows(cat) ==
    KeyConstraintRows(cat) \cup
    UNION { { [table |-> "t1", name |-> "fk1", type |-> "FOREIGN KEY",
               column |-> fk.cols[i], ordinal |-> i, refTable |-> "t2",
               refColumn |-> fk.refKey[fk.piuc[i]], refOrdinal |-> fk.piuc[i]] :
                i \in DOMAIN fk.cols } :
            fk \in { cat.fks[n] : n \in DOMAIN cat.fks } }

\* getRelationships, MySQL: KEY_COLUMN_USAGE rows of the foreign keys
MySqlRelationshipRows(cat) ==
    UNION { { [name |-> "fk1", table |-> "t1", column |-> fk.cols[i], refTable |-> "t2",
               refColumn |-> fk.refKey[fk.piuc[i]], ordinal |-> i] :
                i \in DOMAIN fk.cols } :
            fk \in { cat.fks[n] : n \in DOMAIN cat.fks } }

\* getRelationships, PostgreSQL: key_column_usage joined with constraint_column_usage
\* on the name of the referenced constraint only, so every local column meets
\* every column of the referenced key
PostgresRelationshipRows(cat) ==
    UNION { { [name |-> "fk1", table |-> "t1", column |-> fk.cols[i], refTable |-> "t2",
               refColumn |-> fk.refKey[j], ordinal |-> i] :
                i \in DOMAIN fk.cols, j \in DOMAIN fk.refKey } :
            fk \in { cat.fks[n] : n \in DOMAIN cat.fks } }

RECURSIVE RelationshipArrivals(_)
\* the arrival orders ORDER BY constraint_name, ordinal_position allows: rows in
\* ordinal order, rows of equal ordinal in any order
RelationshipArrivals(rows) ==
    IF rows = {} THEN { <<>> }
    ELSE LET first == SetMin({ r.ordinal : r \in rows })
             group == { r \in rows : r.ordinal = first }
         IN  { head \o tail : head \in Orderings(group),
                               tail \in RelationshipArrivals(rows \ group) }

\* --- the passes of fetchMySqlSchemaDetails / fetchPostgresSchemaDetails ---
NewTable == [columns |-> <<>>, indexes |-> <<>>, constraints |-> <<>>]

\* the body of for (const col of columns)
AddColumn(schemaDetails, col) ==
    LET created == IF ~MapHas(schemaDetails, col.table)
                   THEN MapSet(schemaDetails, col.table, NewTable)
                   ELSE schemaDetails
        tableMap == MapGet(created, col.table)
    IN  MapSet(created, col.table,
               [tableMap EXCEPT !.columns = MapSet(@, col.column, [name |-> col.column])])

RECURSIVE AddColumns(_, _, _)
AddColumns(schemaDetails, rows, i) ==
    IF i > Len(rows) THEN schemaDetails
    ELSE AddColumns(AddColumn(schemaDetails, rows[i]), rows, i + 1)

RECURSIVE GroupIndexRows(_, _, _)
\* MySQL: for (const idx of indexesInfo) into tempIndexes
GroupIndexRows(tempIndexes, rows, i) ==
    IF i > Len(rows) THEN tempIndexes
    ELSE LET idx == rows[i]
             uniqueIndexKey == <<idx.table, ".", idx.index>>
             started == IF ~MapHas(tempIndexes, uniqueIndexKey)
                        THEN MapSet(tempIndexes, uniqueIndexKey,
                                    [tableName |-> idx.table, name |-> idx.index,
                                     columns |-> <<>>])
                        ELSE tempIndexes
             entry == MapGet(started, uniqueIndexKey)
         IN  GroupIndexRows(
                 MapSet(started, uniqueIndexKey,
                        [entry EXCEPT !.columns = PutAt(@, idx.seq, idx.column)]),
                 rows, i + 1)

RECURSIVE AttachIndexes(_, _, _)
\* MySQL: for (const indexData of tempIndexes.values())
AttachIndexes(schemaDetails, tempIndexes, i) ==
    IF i > Len(tempIndexes) THEN schemaDetails
    ELSE LET indexData == tempIndexes[i].value
             next == IF MapHas(schemaDetails, indexData.tableName)
                     THEN LET tableDetails == MapGet(schemaDetails, indexData.tableName)
                          IN  MapSet(schemaDetails, indexData.tableName,
                                     [tableDetails EXCEPT !.indexes =
                                         MapSet(@, indexData.name,
                                                [name |-> indexData.name,
                                                 columns |-> SortedValues(indexData.columns)])])
                     ELSE schemaDetails
         IN  AttachIndexes(next, tempIndexes, i + 1)

RECURSIVE AttachPostgresIndexesCreating(_, _, _)
\* an index loop that creates the table's entry when the columns pass had none
AttachPostgresIndexesCreating(schemaDetails, rows, i) ==
    IF i > Len(rows) THEN schemaDetails
    ELSE LET idx == rows[i]
             created == IF MapHas(schemaDetails, idx.table) THEN schemaDetails
                        ELSE MapSet(schemaDetails, idx.table, NewTable)
             tableDetails == MapGet(created, idx.table)
         IN  AttachPostgresIndexesCreating(
                 MapSet(created, idx.table,
                        [tableDetails EXCEPT !.indexes =
                            MapSet(@, idx.index,
                                   [name |-> idx.index, columns |-> idx.columns])]),
                 rows, i + 1)

RECURSIVE AttachPostgresIndexes(_, _, _)
\* PostgreSQL: for (const idx of indexesInfo)
AttachPostgresIndexes(schemaDetails, rows, i) ==
    IF i > Len(rows) THEN schemaDetails
    ELSE LET idx == rows[i]
             next == IF MapHas(schemaDetails, idx.table)
                     THEN LET tableDetails == MapGet(schemaDetails, idx.table)
                          IN  MapSet(schemaDetails, idx.table,
                                     [tableDetails EXCEPT !.indexes =
                                         MapSet(@, idx.index,
                                                [name |-> idx.index, columns |-> idx.columns])])
                     ELSE schemaDetails
         IN  AttachPostgresIndexes(next, rows, i + 1)

IndexesPass(databaseType, schemaDetails, rows) ==
    IF databaseType = "mysql"
    THEN AttachIndexes(schemaDetails, GroupIndexRows(<<>>, rows, 1), 1)
    ELSE AttachPostgresIndexes(schemaDetails, rows, 1)

\* the key under which a row's referenced column is stored: ORDINAL_POSITION of the
\* local column (MySQL), referenced_ordinal_position (PostgreSQL)
ReferencedPosition(databaseType, con) ==
    IF databaseType = "mysql" THEN con.ordinal ELSE con.refOrdinal

RECURSIVE GroupConstraintRows(_, _, _, _)
\* for (const con of constraintsInfo) into tempConstraints
GroupConstraintRows(databaseType, tempConstraints, rows, i) ==
    IF i > Len(rows) THEN tempConstraints
    ELSE LET con == rows[i]
             uniqueConstraintKey == <<con.table, ".", con.name>>
             started == IF ~MapHas(tempConstraints, uniqueConstraintKey)
                        THEN MapSet(tempConstraints, uniqueConstraintKey,
                                    [tableName |-> con.table, name |-> con.name,
                                     type |-> con.type, columns |-> <<>>,
                                     referencedTable |->
                                         IF con.type = "FOREIGN KEY" THEN con.refTable
                                         ELSE "undefined",
                                     referencedColumns |-> <<>>])
                        ELSE tempConstraints
             constraintData == MapGet(started, uniqueConstraintKey)
             updated == [constraintData EXCEPT
                            !.columns = PutAt(@, con.ordinal, con.column),
                            !.referencedColumns =
                                IF con.type = "FOREIGN KEY"
                                THEN PutAt(@, ReferencedPosition(databaseType, con),
                                           con.refColumn)
                                ELSE @]
         IN  GroupConstraintRows(databaseType,
                                 MapSet(started, uniqueConstraintKey, updated),
                                 rows, i + 1)

\* a guard that never finds an earlier primary key
pkExistsNever(tableDetails) == FALSE

\* tableDetails.constraints.some(c => c.type === 'PRIMARY KEY')
pkExists(tableDetails) ==
    \E n \in DOMAIN tableDetails.constraints :
        tableDetails.constraints[n].type = "PRIMARY KEY"

RECURSIVE AttachConstraints(_, _, _)
\* for (const constraintData of tempConstraints.values())
AttachConstraints(schemaDetails, tempConstraints, i) ==
    IF i > Len(tempConstraints) THEN schemaDetails
    ELSE LET constraintData == tempConstraints[i].value
             next ==
               IF MapHas(schemaDetails, constraintData.tableName)
               THEN LET tableDetails == MapGet(schemaDetails, constraintData.tableName)
                    IN  IF constraintData.type = "PRIMARY KEY" /\ pkExists(tableDetails)
                        THEN schemaDetails
                        ELSE MapSet(schemaDetails, constraintData.tableName,
                               [tableDetails EXCEPT !.constraints =
                                  Append(@, [name |-> constraintData.name,
                                             type |-> constraintData.type,
                                             columns |-> SortedValues(constraintData.columns),
                                             referencedTable |-> constraintData.referencedTable,
                                             referencedColumns |->
                                                IF constraintData.type = "FOREIGN KEY"
                                                THEN SortedValues(constraintData.referencedColumns)
                                                ELSE <<>>])])
               ELSE schemaDetails
         IN  AttachConstraints(next, tempConstraints, i + 1)

ConstraintsPass(databaseType, schemaDetails, rows) ==
    AttachConstraints(schemaDetails, GroupConstraintRows(databaseType, <<>>, rows, 1), 1)

RECURSIVE GroupRelationshipRows(_, _, _)
\* getRelationships: for (const row of rows) into groupedByConstraint
GroupRelationshipRows(groupedByConstraint, rows, i) ==
    IF i > Len(rows) THEN groupedByConstraint
    ELSE LET row == rows[i]
             key == row.name
             started == IF ~MapHas(groupedByConstraint, key)
                        THEN MapSet(groupedByConstraint, key,
                                    [sourceTable |-> row.table, sourceColumns |-> <<>>,
                                     referencedTable |-> row.refTable,
                                     referencedColumns |-> <<>>])
                        ELSE groupedByConstraint
             group == MapGet(started, key)
         IN  GroupRelationshipRows(
                 MapSet(started, key,
                        [group EXCEPT
                            !.sourceColumns = PutAt(@, row.ordinal, row.column),
                            !.referencedColumns = PutAt(@, row.ordinal, row.refColumn)]),
                 rows, i + 1)

\* getRelationships: for (const [constraintName, group] of groupedByConstraint.entries())
Relationships(groupedByConstraint) ==
    [i \in DOMAIN groupedByConstraint |->
        [constraintName |-> groupedByConstraint[i].key,
         sourceTable |-> groupedByConstraint[i].value.sourceTable,
         sourceColumns |-> SortedValues(groupedByConstraint[i].value.sourceColumns),
         referencedTable |-> groupedByConstraint[i].value.referencedTable,
         referencedColumns |-> SortedValues(groupedByConstraint[i].value.referencedColumns)]]

InitFetch ==
    /\ ROIdle
    /\ ExecIdle
    /\ DiffIdle
    /\ NavIdle
    /\ FmtIdle
    /\ WrapIdle
    /\ HandlerIdle
    /\ BfsIdle
    /\ KeyIdle
    /\ RelIdle
    /\ PoolIdle
    /\ fDialect \in DatabaseTypes
    /\ fCat \in Catalogs
    /\ fFilter \in TableFilters
    /\ fRows = <<>>
    /\ fPc = "called"
    /\ fSchema = <<>>
    /\ fLog = <<>>
    /\ fKind = "none"
    /\ fValue = <<>>

\* getSchemaDetails, pass 1: the columns query and its loop
ColumnsPassStep ==
    /\ fPc \in {"called", "columns"}
    /\ \E ok \in BOOLEAN :
         IF ok
         THEN /\ fRows' = FilterRowSeq(ColumnRows(fCat), fFilter)
              /\ fSchema' = AddColumns(<<>>, fRows', 1)
              /\ fLog' = Append(fLog, [pass |-> "columns", ok |-> TRUE])
              /\ fPc' = "indexes"
              /\ UNCHANGED <<fKind, fValue>>
         ELSE /\ fLog' = Append(fLog, [pass |-> "columns", ok |-> FALSE])
              /\ fPc' = "done"
              /\ fKind' = "error"
              /\ UNCHANGED <<fSchema, fValue, fRows>>
    /\ UNCHANGED <<fDialect, fCat, fFilter>>
    /\ UNCHANGED otherThanFetch

\* pass 2 with its failure caught and logged instead of propagated
IndexesPassStepSwallowing ==
    /\ fPc = "indexes"
    /\ \E ok \in BOOLEAN :
         IF ok
         THEN \E rows \in Orderings(FilterRows(IF fDialect = "mysql"
                                                THEN MySqlIndexRows(fCat)
                                                ELSE PostgresIndexRows(fCat), fFilter)) :
                /\ fRows' = rows
                /\ fSchema' = IndexesPass(fDialect, fSchema, rows)
                /\ fLog' = Append(fLog, [pass |-> "indexes", ok |-> TRUE])
         ELSE /\ fLog' = Append(fLog, [pass |-> "indexes", ok |-> FALSE])
              /\ UNCHANGED <<fSchema, fRows>>
    /\ fPc' = "constraints"
    /\ UNCHANGED <<fDialect, fCat, fKind, fValue, fFilter>>
    /\ UNCHANGED otherThanFetch

\* getSchemaDetails, pass 2: the indexes query and its loops
IndexesPassStep ==
    /\ fPc = "indexes"
    /\ \E ok \in BOOLEAN :
         IF ok
         THEN \E rows \in Orderings(FilterRows(IF fDialect = "mysql"
                                                THEN MySqlIndexRows(fCat)
                                                ELSE PostgresIndexRows(fCat), fFilter)) :
                /\ fRows' = rows
                /\ fSchema' = IndexesPass(fDialect, fSchema, rows)
                /\ fLog' = Append(fLog, [pass |-> "indexes", ok |-> TRUE])
                /\ fPc' = "constraints"
                /\ UNCHANGED <<fKind, fValue>>
         ELSE /\ fLog' = Append(fLog, [pass |-> "indexes", ok |-> FALSE])
              /\ fPc' = "done"
              /\ fKind' = "error"
              /\ UNCHANGED <<fSchema, fValue, fRows>>
    /\ UNCHANGED <<fDialect, fCat, fFilter>>
    /\ UNCHANGED otherThanFetch

\* getSchemaDetails, pass 3: the constraints query and its loops, then
\* return schemaDetails
ConstraintsPassStep ==
    /\ fPc = "constraints"
    /\ \E ok \in BOOLEAN :
         IF ok
         THEN \E rows \in Orderings(FilterRows(IF fDialect = "mysql"
                                                THEN MySqlConstraintRows(fCat)
                                                ELSE PostgresConstraintRows(fCat), fFilter)) :
                /\ fRows' = rows
                /\ fSchema' = ConstraintsPass(fDialect, fSchema, rows)
                /\ fLog' = Append(fLog, [pass |-> "constraints", ok |-> TRUE])
                /\ fPc' = "done"
                /\ fKind' = "schema"
                /\ fValue' = fSchema'
         ELSE /\ fLog' = Append(fLog, [pass |-> "constraints", ok |-> FALSE])
              /\ fPc' = "done"
              /\ fKind' = "error"
              /\ UNCHANGED <<fSchema, fValue, fRows>>
    /\ UNCHANGED <<fDialect, fCat, fFilter>>
    /\ UNCHANGED otherThanFetch

\* getRelationships: the query, the grouping loop and the result list
GetRelationships ==
    /\ fPc = "called"
    /\ \E ok \in BOOLEAN :
         IF ok
         THEN \E rows \in RelationshipArrivals(
                              FilterRows(IF fDialect = "mysql" THEN MySqlRelationshipRows(fCat)
                                         ELSE PostgresRelationshipRows(fCat), fFilter)) :
                /\ fRows' = rows
                /\ fValue' = Relationships(GroupRelationshipRows(<<>>, rows, 1))
                /\ fKind' = "relationships"
                /\ fLog' = Append(fLog, [pass |-> "relationships", ok |-> TRUE])
         ELSE /\ fLog' = Append(fLog, [pass |-> "relationships", ok |-> FALSE])
              /\ fKind' = "error"
              /\ UNCHANGED <<fValue, fRows>>
    /\ fPc' = "done"
    /\ UNCHANGED <<fDialect, fCat, fSchema, fFilter>>
    /\ UNCHANGED otherThanFetch

NextFetch ==
    \/ ColumnsPassStep
    \/ IndexesPassStep
    \/ ConstraintsPassStep
    \/ GetRelationships

SpecFetch == InitFetch /\ [][NextFetch]_vars

(***************************************************************************)
(* Claims about the catalog fetchers.                                      *)
(***************************************************************************)
PassesOfGetSchemaDetails == {"columns", "indexes", "constraints"}

AllPassesSucceeded ==
    fLog = << [pass |-> "columns", ok |-> TRUE], [pass |-> "indexes", ok |-> TRUE],
              [pass |-> "constraints", ok |-> TRUE] >>

\* C7: getSchemaDetails is atomic with respect to its three catalog passes: when
\* the columns, indexes or constraints query fails the call fails and no Schema
\* reaches the caller, and a Schema reaches the caller only after all three
\* passes have completed.
C7_NoPartialSchema ==
    /\ fKind = "schema" => AllPassesSucceeded
    /\ (\E i \in DOMAIN fLog : fLog[i].pass \in PassesOfGetSchemaDetails /\ ~fLog[i].ok)
          => /\ fKind = "error"
             /\ fPc = "done"
             /\ fValue = <<>>

\* the constraints query failed after the column and index passes had built a
\* Schema, and the caller got the error
C7_Witness ==
    /\ fKind = "error"
    /\ Len(fLog) = 3
    /\ ~fLog[3].ok
    /\ fSchema # <<>>
    /\ fCat.hasIndex
    /\ fValue = <<>>

ReturnedForeignKeys ==
    { con \in UNION { { MapGet(fValue, t).constraints[n] :
                          n \in DOMAIN MapGet(fValue, t).constraints } :
                      t \in { fValue[i].key : i \in DOMAIN fValue } } :
        con.type = "FOREIGN KEY" }

DeclaredForeignKeys == { fCat.fks[n] : n \in DOMAIN fCat.fks }

\* C8: in every Schema returned by getSchemaDetails, in both dialects and for
\* every arrival order of the constraint rows, each FOREIGN KEY constraint has as
\* many referenced columns as columns and the catalog declares that columns[i]
\* references referencedColumns[i], also when the referenced column's position in
\* the referenced key differs from the local column's position.
C8_ForeignKeyPairing ==
    fKind = "schema" =>
        \A con \in ReturnedForeignKeys :
            \E fk \in DeclaredForeignKeys :
                /\ Len(con.columns) = Len(fk.cols)
                /\ Len(con.referencedColumns) = Len(con.columns)
                /\ \A i \in DOMAIN con.columns :
                      /\ con.columns[i] = fk.cols[i]
                      /\ con.referencedColumns[i] = DeclaredReference(fk, con.columns[i])

\* C9: every Relationship returned by getRelationships, in both dialects and for
\* every set and order of rows the relationship query can return, has
\* sourceColumns and referencedColumns of the same length, and sourceColumns[i]
\* is the column the declared foreign key maps to referencedColumns[i].
C9_RelationshipPairing ==
    fKind = "relationships" =>
        /\ Len(fValue) = Cardinality({ n \in DOMAIN fCat.fks : TablePasses("t1", fFilter) })
        /\ \A n \in DOMAIN fValue :
              \E fk \in DeclaredForeignKeys :
                  /\ fValue[n].sourceColumns = fk.cols
                  /\ Len(fValue[n].referencedColumns) = Len(fk.cols)
                  /\ \A i \in DOMAIN fk.cols :
                        fValue[n].referencedColumns[i] = DeclaredReference(fk, fk.cols[i])

\* the column names the catalog lists for table t, in ordinal order
CatalogColumns(t) == IF t = "t1" THEN fCat.cols1 ELSE fCat.cols2

\* C10: for every table for which the columns query returns N rows, the Schema
\* returned by getSchemaDetails has exactly N column entries for it, and
\* iterating them yields the columns in catalog ordinal order.
C10_ColumnsInOrdinalOrder ==
    fKind = "schema" =>
        /\ { fValue[i].key : i \in DOMAIN fValue }
             = { t \in {"t1", "t2"} : TablePasses(t, fFilter) }
        /\ \A t \in { fValue[i].key : i \in DOMAIN fValue } :
              /\ Len(MapGet(fValue, t).columns) = Len(CatalogColumns(t))
              /\ MapKeys(MapGet(fValue, t).columns) = CatalogColumns(t)
              /\ \A i \in DOMAIN CatalogColumns(t) :
                    MapGet(fValue, t).columns[i].value.name = CatalogColumns(t)[i]

\* a Schema was returned for a table whose ordinal order is not the alphabetical
\* order of its column names
C10_Witness ==
    /\ fKind = "schema"
    /\ fFilter = {}
    /\ fCat.cols1 = <<"b", "a">>
    /\ MapKeys(MapGet(fValue, "t1").columns) = <<"b", "a">>
    /\ Len(MapGet(fValue, "t2").columns) = MaxCols

SchemaTables == { fValue[i].key : i \in DOMAIN fValue }

\* the tables for which the columns query, under the filter, returns rows
TablesWithColumnRows == { t \in {"t1", "t2"} : TablePasses(t, fFilter) }

\* C11: a table is a key of the Schema returned by getSchemaDetails only if the
\* columns pass returned at least one row for it: index and constraint rows of a
\* table without column rows create no entry, every table of the Schema has at
\* least one column, and a filter naming only non-existent tables gives an empty
\* Schema, not an error.
C11_OnlyTablesWithColumns ==
    /\ fKind = "schema" =>
          /\ SchemaTables \subseteq TablesWithColumnRows
          /\ \A t \in SchemaTables : Len(MapGet(fValue, t).columns) >= 1
          /\ fFilter = {"t9"} => fValue = <<>>
    /\ (fPc = "done" /\ fFilter = {"t9"} /\ \A i \in DOMAIN fLog : fLog[i].ok)
          => fKind # "error"

\* a Schema was returned although the index and constraint queries reported the
\* table t3, for which the columns query had no row
C11_Witness ==
    /\ fKind = "schema"
    /\ fCat.orphan
    /\ fFilter = {}
    /\ \E i \in DOMAIN fRows : fRows[i].table = "t3"
    /\ SchemaTables = {"t1", "t2"}

\* C18: in the MySQL catalog fetcher every IndexDefinition.columns lists the
\* index's columns in ascending SEQ_IN_INDEX order, whatever the order in which
\* the index rows arrive and whatever the alphabetical order of the names.
C18_IndexColumnsBySequence ==
    (fDialect = "mysql" /\ fKind = "schema") =>
        \A t \in SchemaTables :
            \A n \in DOMAIN MapGet(fValue, t).indexes :
                LET index == MapGet(fValue, t).indexes[n].value
                    rows == { r \in MySqlIndexRows(fCat) :
                                r.table = t /\ r.index = index.name }
                IN  /\ Len(index.columns) = Cardinality(rows)
                    /\ \A r \in rows : index.columns[r.seq] = r.column

\* the MySQL fetcher returned the index of t1 over (b, a), columns b then a by
\* sequence number
C18_Witness ==
    /\ fDialect = "mysql"
    /\ fKind = "schema"
    /\ fCat.hasIndex
    /\ fCat.cols1 = <<"a", "b">>
    /\ MapHas(MapGet(fValue, "t1").indexes, "ix")
    /\ MapGet(MapGet(fValue, "t1").indexes, "ix").columns = <<"b", "a">>

PrimaryKeysOf(t) ==
    { n \in DOMAIN MapGet(fValue, t).constraints :
        MapGet(fValue, t).constraints[n].type = "PRIMARY KEY" }

\* the positions in the arrived rows of the primary-key rows of table t
PrimaryKeyRowsOf(t) ==
    { i \in DOMAIN fRows : fRows[i].table = t /\ fRows[i].type = "PRIMARY KEY" }

\* C19: in every Schema returned by getSchemaDetails, in both dialects, each
\* table's constraint list has at most one PRIMARY KEY constraint whatever
\* constraint rows the catalog returns; of several primary-key accumulators of a
\* table only the first is kept.
C19_AtMostOnePrimaryKey ==
    fKind = "schema" =>
        \A t \in SchemaTables :
            /\ Cardinality(PrimaryKeysOf(t)) <= 1
            /\ PrimaryKeyRowsOf(t) # {} =>
                  \E n \in PrimaryKeysOf(t) :
                      MapGet(fValue, t).constraints[n].name
                          = fRows[SetMin(PrimaryKeyRowsOf(t))].name

\* the catalog reported two primary keys for t1, pk2 first, and the Schema has pk2
C19_Witness ==
    /\ fKind = "schema"
    /\ fCat.pks = 2
    /\ Cardinality(PrimaryKeyRowsOf("t1")) = 2
    /\ fRows[SetMin(PrimaryKeyRowsOf("t1"))].name = "pk2"
    /\ Cardinality(PrimaryKeysOf("t1")) = 1

\* C20: when getSchemaDetails is called with a non-empty table filter, every
\* referencedTable of a FOREIGN KEY constraint in the returned Schema is itself a
\* key of that Schema.
C20_NoDanglingReference ==
    (fKind = "schema" /\ fFilter # {}) =>
        \A con \in ReturnedForeignKeys : con.referencedTable \in SchemaTables

(***************************************************************************)
(* diffSchemas (tools/metadata.ts).  A Schema is a Map from table name to  *)
(* the table's details; a column default is null or a text.                *)
(***************************************************************************)
NullDefault == [isNull |-> TRUE, text |-> <<>>]

TextDefault(s) == [isNull |-> FALSE, text |-> s]

DefaultValues ==
    { NullDefault, TextDefault(<<"N", "U", "L", "L">>), TextDefault(<<"x">>),
      TextDefault(<<"X">>) }

DiffColumnDefs ==
    [ type : {"int", "text"}, isNullable : {"YES", "NO"}, defaultValue : DefaultValues ]

\* the definition of the columns that do not vary
PlainColumn == [type |-> "int", isNullable |-> "NO", defaultValue |-> NullDefault]

\* the column Maps of a table: column a with any definition, then optionally b
DiffColumnMaps ==
    { <<[key |-> "a", value |-> d]>> \o rest :
        d \in DiffColumnDefs, rest \in { <<>>, <<[key |-> "b", value |-> PlainColumn]>> } }

TableOf(columns) == [columns |-> columns, indexes |-> <<>>, constraints |-> <<>>]

\* the Schemas compared: table t1, then optionally table t2
DiffSchemas ==
    { <<[key |-> "t1", value |-> TableOf(c)]>> \o rest :
        c \in DiffColumnMaps,
        rest \in { <<>>,
                   <<[key |-> "t2",
                      value |-> TableOf(<<[key |-> "p", value |-> PlainColumn]>>)]>> } }

\* [...a.keys(), ...b.keys()] without removal of duplicates
UnionKeysConcat(a, b) == MapKeys(a) \o MapKeys(b)

\* new Set([...a.keys(), ...b.keys()]), in iteration order
UnionKeys(a, b) == MapKeys(a) \o SelectSeq(MapKeys(b), LAMBDA k : ~MapHas(a, k))

\* (defaultValue ?? 'NULL')
OrNull(defaultValue) ==
    IF defaultValue.isNull THEN <<"N", "U", "L", "L">> ELSE defaultValue.text

\* the column test without toUpperCase()
ColumnsDifferCaseSensitive(sourceCol, targetCol) ==
    \/ sourceCol.type # targetCol.type
    \/ sourceCol.isNullable # targetCol.isNullable
    \/ OrNull(sourceCol.defaultValue) # OrNull(targetCol.defaultValue)

\* sourceCol.type !== targetCol.type || sourceCol.isNullable !== targetCol.isNullable
\*   || (sourceCol.defaultValue ?? 'NULL').toUpperCase() !== (...).toUpperCase()
ColumnsDiffer(sourceCol, targetCol) ==
    \/ sourceCol.type # targetCol.type
    \/ sourceCol.isNullable # targetCol.isNullable
    \/ toUpperCase(OrNull(sourceCol.defaultValue))
         # toUpperCase(OrNull(targetCol.defaultValue))

NewTableDiff ==
    [sourceOnlyColumns |-> <<>>, targetOnlyColumns |-> <<>>, differingColumns |-> <<>>,
     differencesFound |-> FALSE]

RECURSIVE DiffColumns(_, _, _, _, _)
\* for (const columnName of allColumnNames)
DiffColumns(allColumnNames, i, sourceTable, targetTable, tableDiff) ==
    IF i > Len(allColumnNames) THEN tableDiff
    ELSE LET columnName == allColumnNames[i]
             inSource == MapHas(sourceTable, columnName)
             inTarget == MapHas(targetTable, columnName)
             next ==
               IF inSource /\ ~inTarget
               THEN [tableDiff EXCEPT !.sourceOnlyColumns = Append(@, columnName),
                                      !.differencesFound = TRUE]
               ELSE IF ~inSource /\ inTarget
               THEN [tableDiff EXCEPT !.targetOnlyColumns = Append(@, columnName),
                                      !.differencesFound = TRUE]
               ELSE IF inSource /\ inTarget
                       /\ ColumnsDiffer(MapGet(sourceTable, columnName),
                                        MapGet(targetTable, columnName))
               THEN [tableDiff EXCEPT
                        !.differingColumns =
                            MapSet(@, columnName,
                                   [sourceDef |-> MapGet(sourceTable, columnName),
                                    targetDef |-> MapGet(targetTable, columnName)]),
                        !.differencesFound = TRUE]
               ELSE tableDiff
         IN  DiffColumns(allColumnNames, i + 1, sourceTable, targetTable, next)

NewSchemaDiff ==
    [sourceOnlyTables |-> <<>>, targetOnlyTables |-> <<>>, differingTables |-> <<>>,
     identicalTables |-> <<>>]

RECURSIVE DiffTables(_, _, _, _, _)
\* for (const tableName of allTableNames)
DiffTables(allTableNames, i, sourceSchema, targetSchema, diff) ==
    IF i > Len(allTableNames) THEN diff
    ELSE LET tableName == allTableNames[i]
             inSource == MapHas(sourceSchema, tableName)
             inTarget == MapHas(targetSchema, tableName)
             next ==
               IF inSource /\ ~inTarget
               THEN [diff EXCEPT !.sourceOnlyTables = Append(@, tableName)]
               ELSE IF ~inSource /\ inTarget
               THEN [diff EXCEPT !.targetOnlyTables = Append(@, tableName)]
               ELSE IF inSource /\ inTarget
               THEN LET sourceTable == MapGet(sourceSchema, tableName).columns
                        targetTable == MapGet(targetSchema, tableName).columns
                        tableDiff == DiffColumns(UnionKeys(sourceTable, targetTable), 1,
                                                 sourceTable, targetTable, NewTableDiff)
                    IN  IF tableDiff.differencesFound
                        THEN [diff EXCEPT !.differingTables = MapSet(@, tableName, tableDiff)]
                        ELSE [diff EXCEPT !.identicalTables = Append(@, tableName)]
               ELSE diff
         IN  DiffTables(allTableNames, i + 1, sourceSchema, targetSchema, next)

diffSchemas(sourceSchema, targetSchema) ==
    DiffTables(UnionKeys(sourceSchema, targetSchema), 1, sourceSchema, targetSchema,
               NewSchemaDiff)

InitDiff ==
    /\ ROIdle
    /\ ExecIdle
    /\ FetchIdle
    /\ NavIdle
    /\ FmtIdle
    /\ WrapIdle
    /\ HandlerIdle
    /\ BfsIdle
    /\ KeyIdle
    /\ RelIdle
    /\ PoolIdle
    /\ dSource \in DiffSchemas
    /\ dTarget \in DiffSchemas
    /\ dPc = "input"
    /\ dDiff = NewSchemaDiff

\* the schemas are compared
Diff ==
    /\ dPc = "input"
    /\ dDiff' = diffSchemas(dSource, dTarget)
    /\ dPc' = "compared"
    /\ UNCHANGED <<dSource, dTarget>>
    /\ UNCHANGED otherThanDiff

NextDiff == Diff

SpecDiff == InitDiff /\ [][NextDiff]_vars

(***************************************************************************)
(* Claims about diffSchemas.                                               *)
(***************************************************************************)
\* how often x occurs in the sequence s
Occurrences(s, x) == Cardinality({ i \in DOMAIN s : s[i] = x })

\* C12: for every Schema S, diffSchemas(S, S) has empty sourceOnlyTables,
\* targetOnlyTables and differingTables, and identicalTables holds every table
\* of S exactly once.
C12_DiffOfSchemaWithItself ==
    (dPc = "compared" /\ dSource = dTarget) =>
        /\ dDiff.sourceOnlyTables = <<>>
        /\ dDiff.targetOnlyTables = <<>>
        /\ dDiff.differingTables = <<>>
        /\ \A i \in DOMAIN dSource : Occurrences(dDiff.identicalTables, dSource[i].key) = 1
        /\ Len(dDiff.identicalTables) = Len(dSource)

\* a two-table Schema with a textual default was compared with itself
C12_Witness ==
    /\ dPc = "compared"
    /\ dSource = dTarget
    /\ Len(dSource) = 2
    /\ MapGet(MapGet(dSource, "t1").columns, "a").defaultValue = TextDefault(<<"x">>)
    /\ dDiff.identicalTables = <<"t1", "t2">>

EqualIgnoringCase(x, y) ==
    /\ Len(x) = Len(y)
    /\ \A i \in DOMAIN x : UpperChar(x[i]) = UpperChar(y[i])

\* the stated test: type differs, or nullability differs, or the defaults differ
\* ignoring case, a null default being the text NULL
StatedToDiffer(s, t) ==
    \/ s.type # t.type
    \/ s.isNullable # t.isNullable
    \/ ~EqualIgnoringCase(OrNull(s.defaultValue), OrNull(t.defaultValue))

SharedTables == { t \in {"t1", "t2"} : MapHas(dSource, t) /\ MapHas(dTarget, t) }

SharedColumns(t) ==
    { c \in {"a", "b", "p"} : /\ MapHas(MapGet(dSource, t).columns, c)
                              /\ MapHas(MapGet(dTarget, t).columns, c) }

\* the differingColumns recorded for table t (none when t is not a differing table)
DifferingColumnsOf(t) ==
    IF MapHas(dDiff.differingTables, t)
    THEN MapGet(dDiff.differingTables, t).differingColumns
    ELSE <<>>

\* the target is the source with the type of column a of t1 changed, nothing else
OnlyTypeChanged ==
    /\ dTarget # dSource
    /\ \E ty \in {"int", "text"} :
         dTarget = [dSource EXCEPT ![1].value.columns[1].value.type = ty]

\* C13: a column present in the same table on both sides is in that table's
\* differingColumns exactly when its type differs, or its nullability differs, or
\* its default differs ignoring case with a null default read as 'NULL'; so
\* changing only one column's type puts that table in differingTables with
\* exactly one differingColumns entry and no side-only column.
C13_DifferingColumns ==
    dPc = "compared" =>
        /\ \A t \in SharedTables : \A c \in SharedColumns(t) :
              MapHas(DifferingColumnsOf(t), c)
                <=> StatedToDiffer(MapGet(MapGet(dSource, t).columns, c),
                                   MapGet(MapGet(dTarget, t).columns, c))
        /\ OnlyTypeChanged =>
              /\ MapKeys(dDiff.differingTables) = <<"t1">>
              /\ MapKeys(MapGet(dDiff.differingTables, "t1").differingColumns) = <<"a">>
              /\ MapGet(dDiff.differingTables, "t1").sourceOnlyColumns = <<>>
              /\ MapGet(dDiff.differingTables, "t1").targetOnlyColumns = <<>>

\* only the type of t1.a was changed, in a table of two columns, and the diff has
\* the one differing column
C13_Witness ==
    /\ dPc = "compared"
    /\ OnlyTypeChanged
    /\ Len(MapGet(dSource, "t1").columns) = 2
    /\ MapKeys(DifferingColumnsOf("t1")) = <<"a">>

(***************************************************************************)
(* find_navigation_paths and findPathsBFS (tools/metadata.ts).  The        *)
(* relationships are the list fetchExplicitRelationships returns, one per  *)
(* foreign key; a path is the sequence of its tables.                      *)
(***************************************************************************)
NavTables == {"A", "B", "C"}

\* the foreign keys a database over the tables can declare: between two distinct
\* tables in either direction, or from A to itself
ForeignKeyEdges ==
    { e \in NavTables \X NavTables : e[1] # e[2] } \cup { <<"A", "A">> }

EdgeLists == UNION { [1..k -> ForeignKeyEdges] : k \in 0..MaxRels }

\* the Relationship list for a list of edges
RelationshipsOf(edges) ==
    [i \in DOMAIN edges |->
        [constraintName |-> i, reversed |-> FALSE,
         sourceTable |-> edges[i][1], referencedTable |-> edges[i][2]]]

\* the target tables asked for: the source itself, tables of the graph, an unknown one
NavTargets == {"A", "B", "C", "D"}

Elements(s) == { s[i] : i \in DOMAIN s }

RECURSIVE BuildAdjList(_, _, _)
\* allRelationships.forEach(rel => { ... }) into adjList
BuildAdjList(allRelationships, i, adjList) ==
    IF i > Len(allRelationships) THEN adjList
    ELSE LET rel == allRelationships[i]
             a1 == IF ~MapHas(adjList, rel.sourceTable)
                   THEN MapSet(adjList, rel.sourceTable, <<>>) ELSE adjList
             a2 == MapSet(a1, rel.sourceTable, Append(MapGet(a1, rel.sourceTable), rel))
             a3 == IF ~MapHas(a2, rel.referencedTable)
                   THEN MapSet(a2, rel.referencedTable, <<>>) ELSE a2
             reverseRel == [constraintName |-> rel.constraintName, reversed |-> TRUE,
                            sourceTable |-> rel.referencedTable,
                            referencedTable |-> rel.sourceTable]
         IN  BuildAdjList(allRelationships, i + 1,
                          MapSet(a3, rel.referencedTable,
                                 Append(MapGet(a3, rel.referencedTable), reverseRel)))

\* allTables after the forEach
AllTables(allRelationships) ==
    UNION { { allRelationships[i].sourceTable, allRelationships[i].referencedTable } :
            i \in DOMAIN allRelationships }

\* rel.referencedTable === node ? rel.sourceTable : rel.referencedTable
Neighbor(rel, node) ==
    IF rel.referencedTable = node THEN rel.sourceTable ELSE rel.referencedTable

\* a visited test that never finds the path
AlreadyVisitedNever(visitedInPath, node, path) == FALSE

\* visitedInPath.get(node).has(JSON.stringify(path)); JSON.stringify is one-to-one
\* on lists of table names, so the path stands for its text
AlreadyVisited(visitedInPath, node, path) == <<node, path>> \in visitedInPath

RECURSIVE Enqueued(_, _, _, _, _)
\* for (const rel of relationships): the queue entries pushed for one node
Enqueued(relationships, i, node, path, depth) ==
    IF i > Len(relationships) THEN <<>>
    ELSE LET neighbor == Neighbor(relationships[i], node)
             rest == Enqueued(relationships, i + 1, node, path, depth)
         IN  IF neighbor \notin Elements(path)
             THEN <<[node |-> neighbor, path |-> Append(path, neighbor),
                     depth |-> depth + 1]>> \o rest
             ELSE rest

RECURSIVE BFSLoopDepthFirst(_, _, _, _, _, _)
\* a loop whose queue is a stack: the new entries go to the front
BFSLoopDepthFirst(queue, visitedInPath, paths, endNode, maxDepth, adjList) ==
    IF queue = <<>> THEN paths
    ELSE LET item == Head(queue)
             rest == Tail(queue)
             visited == visitedInPath \cup { <<item.node, item.path>> }
         IN  IF AlreadyVisited(visitedInPath, item.node, item.path)
             THEN BFSLoopDepthFirst(rest, visitedInPath, paths, endNode, maxDepth, adjList)
             ELSE IF item.node = endNode
             THEN BFSLoopDepthFirst(rest, visited, Append(paths, item.path), endNode,
                                    maxDepth, adjList)
             ELSE IF item.depth >= maxDepth
             THEN BFSLoopDepthFirst(rest, visited, paths, endNode, maxDepth, adjList)
             ELSE LET relationships == IF MapHas(adjList, item.node)
                                       THEN MapGet(adjList, item.node) ELSE <<>>
                  IN  BFSLoopDepthFirst(Enqueued(relationships, 1, item.node, item.path,
                                                 item.depth) \o rest,
                                        visited, paths, endNode, maxDepth, adjList)

RECURSIVE BFSLoop(_, _, _, _, _, _)
\* while (queue.length > 0)
BFSLoop(queue, visitedInPath, paths, endNode, maxDepth, adjList) ==
    IF queue = <<>> THEN paths
    ELSE LET item == Head(queue)
             rest == Tail(queue)
             visited == visitedInPath \cup { <<item.node, item.path>> }
         IN  IF AlreadyVisited(visitedInPath, item.node, item.path)
             THEN BFSLoop(rest, visitedInPath, paths, endNode, maxDepth, adjList)
             ELSE IF item.node = endNode
             THEN BFSLoop(rest, visited, Append(paths, item.path), endNode, maxDepth, adjList)
             ELSE IF item.depth >= maxDepth
             THEN BFSLoop(rest, visited, paths, endNode, maxDepth, adjList)
             ELSE LET relationships == IF MapHas(adjList, item.node)
                                       THEN MapGet(adjList, item.node) ELSE <<>>
                  IN  BFSLoop(rest \o Enqueued(relationships, 1, item.node, item.path,
                                               item.depth),
                              visited, paths, endNode, maxDepth, adjList)

findPathsBFS(startNode, endNode, maxDepth, adjList) ==
    BFSLoop(<<[node |-> startNode, path |-> <<startNode>>, depth |-> 0]>>, {}, <<>>,
            endNode, maxDepth, adjList)

InitNav ==
    /\ ROIdle
    /\ ExecIdle
    /\ FetchIdle
    /\ DiffIdle
    /\ FmtIdle
    /\ WrapIdle
    /\ HandlerIdle
    /\ BfsIdle
    /\ KeyIdle
    /\ RelIdle
    /\ PoolIdle
    /\ nRels \in { RelationshipsOf(e) : e \in EdgeLists }
    /\ nSource = "A"
    /\ nTarget \in NavTargets
    /\ nMaxHops \in 1..MaxHops
    /\ nPc = "called"
    /\ nConn = "null"
    /\ nAcquired = 0
    /\ nReleased = 0
    /\ nFetched = 0
    /\ nSearched = 0
    /\ nKind = "none"
    /\ nPaths = <<>>

\* a handler entry that goes on to the connection whatever the two tables are
SameTableCheckSkipped ==
    /\ nPc = "called"
    /\ nPc' = "acquire"
    /\ UNCHANGED <<nRels, nSource, nTarget, nMaxHops, nConn, nAcquired, nReleased,
                   nFetched, nSearched, nKind, nPaths>>
    /\ UNCHANGED otherThanNav

\* if (source_table === target_table) return "Source and target tables are the same."
SameTableCheck ==
    /\ nPc = "called"
    /\ IF nSource = nTarget
       THEN /\ nKind' = "same"
            /\ nPc' = "done"
       ELSE /\ nPc' = "acquire"
            /\ UNCHANGED nKind
    /\ UNCHANGED <<nRels, nSource, nTarget, nMaxHops, nConn, nAcquired, nReleased,
                   nFetched, nSearched, nPaths>>
    /\ UNCHANGED otherThanNav

\* connection = await pool.getConnection(), or its rejection caught
NavAcquire ==
    /\ nPc = "acquire"
    /\ \E ok \in BOOLEAN :
         IF ok
         THEN /\ nConn' = "held"
              /\ nAcquired' = nAcquired + 1
              /\ nPc' = "fetch"
              /\ UNCHANGED nKind
         ELSE /\ nKind' = "error"
              /\ nPc' = "finally"
              /\ UNCHANGED <<nConn, nAcquired>>
    /\ UNCHANGED <<nRels, nSource, nTarget, nMaxHops, nReleased, nFetched, nSearched, nPaths>>
    /\ UNCHANGED otherThanNav

\* await fetchExplicitRelationships(...), then the adjacency list, the table checks
\* and the search, up to the return statement
NavFetchAndSearch ==
    /\ nPc = "fetch"
    /\ nFetched' = nFetched + 1
    /\ \E ok \in BOOLEAN :
         IF ~ok
         THEN /\ nKind' = "error"
              /\ UNCHANGED <<nSearched, nPaths>>
         ELSE IF Len(nRels) = 0
         THEN /\ nKind' = "no_relationships"
              /\ UNCHANGED <<nSearched, nPaths>>
         ELSE IF nSource \notin AllTables(nRels)
         THEN /\ nKind' = "source_not_found"
              /\ UNCHANGED <<nSearched, nPaths>>
         ELSE IF nTarget \notin AllTables(nRels)
         THEN /\ nKind' = "target_not_found"
              /\ UNCHANGED <<nSearched, nPaths>>
         ELSE /\ nPaths' = findPathsBFS(nSource, nTarget, nMaxHops,
                                        BuildAdjList(nRels, 1, <<>>))
              /\ nSearched' = nSearched + 1
              /\ nKind' = "paths"
    /\ nPc' = "finally"
    /\ UNCHANGED <<nRels, nSource, nTarget, nMaxHops, nConn, nAcquired, nReleased>>
    /\ UNCHANGED otherThanNav

\* finally { if (connection) connection.release(); }
NavFinally ==
    /\ nPc = "finally"
    /\ IF nConn = "held"
       THEN /\ nConn' = "released"
            /\ nReleased' = nReleased + 1
       ELSE UNCHANGED <<nConn, nReleased>>
    /\ nPc' = "done"
    /\ UNCHANGED <<nRels, nSource, nTarget, nMaxHops, nAcquired, nFetched, nSearched,
                   nKind, nPaths>>
    /\ UNCHANGED otherThanNav

NextNav ==
    \/ SameTableCheck
    \/ NavAcquire
    \/ NavFetchAndSearch
    \/ NavFinally

SpecNav == InitNav /\ [][NextNav]_vars

(***************************************************************************)
(* Claims about the path search.                                           *)
(***************************************************************************)
\* two tables are joined by a foreign key, in either direction
Adjacent(x, y) ==
    \E i \in DOMAIN nRels :
        \/ nRels[i].sourceTable = x /\ nRels[i].referencedTable = y
        \/ nRels[i].sourceTable = y /\ nRels[i].referencedTable = x

\* the simple paths from nSource to nTarget of at most nMaxHops edges
SimplePaths ==
    { p \in DistinctSeqs(NavTables, Cardinality(NavTables)) :
        /\ Len(p) >= 2
        /\ Len(p) - 1 <= nMaxHops
        /\ p[1] = nSource
        /\ p[Len(p)] = nTarget
        /\ \A i \in 1..(Len(p) - 1) : Adjacent(p[i], p[i + 1]) }

\* C14: findPathsBFS(start, end, maxHops, adjacency) with start # end returns
\* exactly the simple paths from start to end of at most maxHops edges of the
\* undirected foreign-key graph, each exactly once, also when several foreign
\* keys join the same two tables.
C14_AllSimplePathsOnce ==
    nKind = "paths" =>
        /\ Elements(nPaths) = SimplePaths
        /\ \A i, j \in DOMAIN nPaths : i # j => nPaths[i] # nPaths[j]

\* with two foreign keys between A and B and one between B and C, the search from A
\* to C returned the one path A, B, C
C14_Witness ==
    /\ nKind = "paths"
    /\ nTarget = "C"
    /\ nMaxHops >= 2
    /\ Cardinality({ i \in DOMAIN nRels :
                       {nRels[i].sourceTable, nRels[i].referencedTable} = {"A", "B"} }) = 2
    /\ ~Adjacent("A", "C")
    /\ nPaths = << <<"A", "B", "C">> >>

\* C15: find_navigation_paths with source_table equal to target_table returns the
\* 'same table' result without acquiring a connection, without fetching the
\* relationships and without running the path search.
C15_SameTableShortCircuit ==
    nSource = nTarget =>
        /\ nAcquired = 0
        /\ nFetched = 0
        /\ nSearched = 0
        /\ nConn = "null"
        /\ nPc = "done" => nKind = "same"

\* the call with source and target A has returned the 'same table' result in a
\* database that has foreign keys
C15_Witness ==
    /\ nSource = nTarget
    /\ nPc = "done"
    /\ nKind = "same"
    /\ Len(nRels) > 0

(***************************************************************************)
(* formatErrorResponse (tools/index.ts, and the older tools/utils.ts).     *)
(* Texts are sequences of characters; a field of the error object that is  *)
(* not there is Absent.                                                    *)
(***************************************************************************)
Absent == [present |-> FALSE, text |-> <<>>]

Text(s) == [present |-> TRUE, text |-> s]

\* JavaScript truthiness of an optional string
Truthy(v) == v.present /\ v.text # <<>>

\* `${v}` of an optional string
Interpolated(v) == IF v.present THEN v.text ELSE <<"u", "n", "d", "e", "f", "i", "n", "e", "d">>

\* the case labels of the MySQL switch
MySqlErrorCodes ==
    { <<"E", "R", "_", "B", "A", "D", "_", "D", "B", "_", "E", "R", "R", "O", "R">>,
      <<"E", "R", "_", "N", "O", "_", "S", "U", "C", "H", "_", "T", "A", "B", "L", "E">>,
      <<"E", "R", "_", "P", "A", "R", "S", "E", "_", "E", "R", "R", "O", "R">>,
      <<"E", "C", "O", "N", "N", "R", "E", "F", "U", "S", "E", "D">>,
      <<"E", "N", "O", "T", "F", "O", "U", "N", "D">>,
      <<"E", "R", "_", "A", "C", "C", "E", "S", "S", "_", "D", "E", "N", "I", "E", "D", "_", "E", "R", "R", "O", "R">>,
      <<"E", "R", "_", "D", "B", "A", "C", "C", "E", "S", "S", "_", "D", "E", "N", "I", "E", "D", "_", "E", "R", "R", "O", "R">>,
      <<"E", "R", "_", "T", "A", "B", "L", "E", "A", "C", "C", "E", "S", "S", "_", "D", "E", "N", "I", "E", "D", "_", "E", "R", "R", "O", "R">>,
      <<"E", "R", "_", "S", "P", "E", "C", "I", "F", "I", "C", "_", "A", "C", "C", "E", "S", "S", "_", "D", "E", "N", "I", "E", "D", "_", "E", "R", "R", "O", "R">> }

\* the case labels of the PostgreSQL switch
PostgresErrorCodes ==
    { <<"E", "C", "O", "N", "N", "R", "E", "F", "U", "S", "E", "D">>,
      <<"E", "N", "O", "T", "F", "O", "U", "N", "D">>,
      <<"E", "T", "I", "M", "E", "O", "U", "T">>,
      <<"2", "8", "0", "0", "0">>,
      <<"2", "8", "P", "0", "1">>,
      <<"3", "D", "0", "0", "0">>,
      <<"4", "2", "5", "0", "1">>,
      <<"4", "2", "P", "0", "1">>,
      <<"3", "F", "0", "0", "0">>,
      <<"4", "2", "7", "0", "3">>,
      <<"2", "3", "5", "0", "2">>,
      <<"2", "3", "5", "0", "3">>,
      <<"2", "3", "5", "0", "5">>,
      <<"2", "3", "5", "1", "4">>,
      <<"4", "2", "6", "0", "1">>,
      <<"4", "2", "7", "0", "4">>,
      <<"2", "2", "P", "0", "2">> }

\* a code in neither switch: X1
CodeUnknown == <<"X", "1">>

\* the codes the errors carry: none, the empty string, X1, ER_BAD_DB_ERROR, 3D000,
\* ECONNREFUSED
ErrorCodes ==
    { Absent, Text(<<>>), Text(CodeUnknown), Text(<<"E", "R", "_", "B", "A", "D", "_", "D", "B", "_", "E", "R", "R", "O", "R">>), Text(<<"3", "D", "0", "0", "0">>),
      Text(<<"E", "C", "O", "N", "N", "R", "E", "F", "U", "S", "E", "D">>) }

\* the messages the errors carry: none, the empty string, "boom", and "Error", which
\* is part of the generic message
ErrorMessages == { Absent, Text(<<>>), Text(<<"b", "o", "o", "m">>), Text(<<"E", "r", "r", "o", "r">>) }

ErrorObjects ==
    [ code : ErrorCodes, message : ErrorMessages, routine : { Absent, Text(<<"p", "a", "r", "s", "e">>) },
      isErrorInstance : BOOLEAN ]

\* String(error) of an error whose message is falsy
StringOfError(error) ==
    IF error.isErrorInstance THEN <<"E", "r", "r", "o", "r">> ELSE <<"[", "o", "b", "j", "e", "c", "t", " ", "O", "b", "j", "e", "c", "t", "]">>

\* error.message || String(error)
OriginalErrorMessage(error) ==
    IF Truthy(error.message) THEN error.message.text ELSE StringOfError(error)

\* the base message, for operationDesc "run"
BaseMessage(identifierType, identifier, tableName) ==
    IF Truthy(tableName) /\ Truthy(identifier)
    THEN <<"F", "a", "i", "l", "e", "d", " ", "t", "o", " ", "r", "u", "n", " ", "f", "o", "r", " ", "t", "a", "b", "l", "e", " ", "'">> \o tableName.text \o <<"'", " ", "i", "n", " ">> \o identifierType
           \o <<" ", "'">> \o identifier.text \o <<"'", ".">>
    ELSE IF Truthy(identifier)
    THEN <<"F", "a", "i", "l", "e", "d", " ", "t", "o", " ", "r", "u", "n", " ", "i", "n", " ">> \o identifierType \o <<" ", "'">> \o identifier.text \o <<"'", ".">>
    ELSE <<"F", "a", "i", "l", "e", "d", " ", "t", "o", " ", "r", "u", "n", ".">>

\* mysqlConfig.host ?? 'unknown host' and the like
ConfiguredOr(enabled, value, fallback) == IF enabled THEN value ELSE fallback

\* the MySQL switch (the cases of the codes modelled, and the default)
MySqlSpecificError(error, identifier, mysqlPool) ==
    IF ~Truthy(error.code) THEN <<>>
    ELSE IF error.code.text = <<"E", "R", "_", "B", "A", "D", "_", "D", "B", "_", "E", "R", "R", "O", "R">>
    THEN <<"M", "y", "S", "Q", "L", " ", "E", "r", "r", "o", "r", ":", " ", "D", "a", "t", "a", "b", "a", "s", "e", " ", "'">> \o Interpolated(identifier)
           \o <<"'", " ", "d", "o", "e", "s", " ", "n", "o", "t", " ", "e", "x", "i", "s", "t", " ", "o", "r", " ", "a", "c", "c", "e", "s", "s", " ", "d", "e", "n", "i", "e", "d", ".">>
    ELSE IF error.code.text = <<"E", "C", "O", "N", "N", "R", "E", "F", "U", "S", "E", "D">>
    THEN <<"M", "y", "S", "Q", "L", " ", "E", "r", "r", "o", "r", ":", " ", "C", "o", "u", "l", "d", " ", "n", "o", "t", " ", "c", "o", "n", "n", "e", "c", "t", " ", "t", "o", " ", "t", "h", "e", " ", "d", "a", "t", "a", "b", "a", "s", "e", " ", "h", "o", "s", "t", " ", "'">>
           \o ConfiguredOr(mysqlPool, <<"d", "b", "h", "o", "s", "t">>, <<"u", "n", "k", "n", "o", "w", "n", " ", "h", "o", "s", "t">>)
           \o <<"'", ".", " ", "C", "h", "e", "c", "k", " ", "c", "o", "n", "n", "e", "c", "t", "i", "o", "n", " ", "d", "e", "t", "a", "i", "l", "s", ".">>
    ELSE <<"M", "y", "S", "Q", "L", " ", "E", "r", "r", "o", "r", " ", "C", "o", "d", "e", ":", " ">> \o error.code.text \o <<".">>

\* the PostgreSQL switch (the cases of the codes modelled, and the default), and
\* the routine branch
PostgresSpecificError(error, pgPool) ==
    IF Truthy(error.code)
    THEN IF error.code.text = <<"E", "C", "O", "N", "N", "R", "E", "F", "U", "S", "E", "D">>
         THEN <<"P", "o", "s", "t", "g", "r", "e", "S", "Q", "L", " ", "E", "r", "r", "o", "r", ":", " ", "C", "o", "n", "n", "e", "c", "t", "i", "o", "n", " ", "r", "e", "f", "u", "s", "e", "d", " ", "t", "o", " ", "h", "o", "s", "t", " ", "'">>
                \o ConfiguredOr(pgPool, <<"p", "g", "h", "o", "s", "t">>, <<"u", "n", "k", "n", "o", "w", "n", " ", "h", "o", "s", "t">>)
                \o <<"'", ".", " ", "I", "s", " ", "t", "h", "e", " ", "s", "e", "r", "v", "e", "r", " ", "r", "u", "n", "n", "i", "n", "g", " ", "a", "n", "d", " ", "a", "c", "c", "e", "s", "s", "i", "b", "l", "e", "?">>
         ELSE IF error.code.text = <<"3", "D", "0", "0", "0">>
         THEN <<"P", "o", "s", "t", "g", "r", "e", "S", "Q", "L", " ", "E", "r", "r", "o", "r", ":", " ", "D", "a", "t", "a", "b", "a", "s", "e", " ", "'">>
                \o ConfiguredOr(pgPool, <<"p", "g", "d", "b">>, <<"u", "n", "k", "n", "o", "w", "n", " ", "d", "a", "t", "a", "b", "a", "s", "e">>)
                \o <<"'", " ", "d", "o", "e", "s", " ", "n", "o", "t", " ", "e", "x", "i", "s", "t", ".">>
         ELSE <<"P", "o", "s", "t", "g", "r", "e", "S", "Q", "L", " ", "E", "r", "r", "o", "r", " ", "C", "o", "d", "e", ":", " ">> \o error.code.text \o <<".">>
    ELSE IF Truthy(error.routine)
    THEN <<"P", "o", "s", "t", "g", "r", "e", "S", "Q", "L", " ", "E", "r", "r", "o", "r", " ", "i", "n", " ", "r", "o", "u", "t", "i", "n", "e", ":", " ">> \o error.routine.text \o <<".">>
    ELSE <<>>

\* databaseType || (mysqlPool ? 'mysql' : (pgPool ? 'postgres' : undefined))
InferredDbType(databaseType, mysqlPool, pgPool) ==
    IF databaseType # "undefined" THEN databaseType
    ELSE IF mysqlPool THEN "mysql"
    ELSE IF pgPool THEN "postgres"
    ELSE "undefined"

\* a detailed message that never appends the server details
DetailedMessageWithoutDetails(baseMessage, specificError, originalErrorMessage) ==
    baseMessage \o <<" ">> \o specificError

\* specificError.includes(originalErrorMessage) ? ... : ...\nServer Details: ...
DetailedMessage(baseMessage, specificError, originalErrorMessage) ==
    IF includes(specificError, originalErrorMessage)
    THEN baseMessage \o <<" ">> \o specificError
    ELSE baseMessage \o <<" ">> \o specificError \o <<"\n", "S", "e", "r", "v", "e", "r", " ", "D", "e", "t", "a", "i", "l", "s", ":", " ">>
           \o originalErrorMessage

ErrorResponse(text) == [isError |-> TRUE, content |-> <<[type |-> "text", text |-> text]>>]

\* tools/index.ts
formatErrorResponse(error, databaseType, identifier, tableName, mysqlPool, pgPool) ==
    LET identifierType == IF databaseType = "postgres" THEN <<"s", "c", "h", "e", "m", "a">> ELSE <<"d", "a", "t", "a", "b", "a", "s", "e">>
        baseMessage == BaseMessage(identifierType, identifier, tableName)
        dbType == InferredDbType(databaseType, mysqlPool, pgPool)
        specificError ==
            IF dbType = "mysql" THEN MySqlSpecificError(error, identifier, mysqlPool)
            ELSE IF dbType = "postgres" THEN PostgresSpecificError(error, pgPool)
            ELSE <<>>
    IN  ErrorResponse(DetailedMessage(baseMessage, specificError,
                                      OriginalErrorMessage(error)))

\* tools/utils.ts: the MySQL-only formatter (the cases of the codes modelled, and
\* the default); pool.config.host is taken to be set
UtilsFormatErrorResponse(error, dbName, tableName) ==
    LET baseMessage == BaseMessage(<<"d", "a", "t", "a", "b", "a", "s", "e">>, dbName, tableName)
        specificError ==
            IF ~Truthy(error.code) THEN <<>>
            ELSE IF error.code.text = <<"E", "R", "_", "B", "A", "D", "_", "D", "B", "_", "E", "R", "R", "O", "R">>
            THEN <<"D", "a", "t", "a", "b", "a", "s", "e", " ", "'">> \o Interpolated(dbName)
                   \o <<"'", " ", "d", "o", "e", "s", " ", "n", "o", "t", " ", "e", "x", "i", "s", "t", " ", "o", "r", " ", "a", "c", "c", "e", "s", "s", " ", "d", "e", "n", "i", "e", "d", ".">>
            ELSE IF error.code.text = <<"E", "C", "O", "N", "N", "R", "E", "F", "U", "S", "E", "D">>
            THEN <<"C", "o", "u", "l", "d", " ", "n", "o", "t", " ", "c", "o", "n", "n", "e", "c", "t", " ", "t", "o", " ", "t", "h", "e", " ", "M", "y", "S", "Q", "L", " ", "d", "a", "t", "a", "b", "a", "s", "e", " ", "h", "o", "s", "t", " ", "'", "d", "b", "h", "o", "s", "t", "'", ".", " ", "C", "h", "e", "c", "k", " ", "c", "o", "n", "n", "e", "c", "t", "i", "o", "n", " ", "d", "e", "t", "a", "i", "l", "s", ".">>
            ELSE <<"M", "y", "S", "Q", "L", " ", "E", "r", "r", "o", "r", " ", "C", "o", "d", "e", ":", " ">> \o error.code.text \o <<".">>
    IN  ErrorResponse(baseMessage \o <<" ">> \o specificError \o <<"\n", "S", "e", "r", "v", "e", "r", " ", "D", "e", "t", "a", "i", "l", "s", ":", " ">>
                        \o OriginalErrorMessage(error))

\* which pools the configuration enabled: at least one, or the process has exited
PoolSetups == { <<TRUE, FALSE>>, <<FALSE, TRUE>>, <<TRUE, TRUE>> }

InitFmt ==
    /\ ROIdle
    /\ ExecIdle
    /\ FetchIdle
    /\ DiffIdle
    /\ NavIdle
    /\ WrapIdle
    /\ HandlerIdle
    /\ BfsIdle
    /\ KeyIdle
    /\ RelIdle
    /\ PoolIdle
    /\ eFormatter \in {"index", "utils"}
    /\ eError \in ErrorObjects
    /\ eDatabaseType \in {"mysql", "postgres", "undefined"}
    /\ ePools \in PoolSetups
    /\ eIdentifier \in { Absent, Text(<<"i", "d", "e", "n", "t">>) }
    /\ eTableName \in { Absent, Text(<<"t", "b", "l">>) }
    /\ ePc = "caught"
    /\ eResponse = [isError |-> FALSE, content |-> <<>>]

\* the catch block calls the formatter
FormatError ==
    /\ ePc = "caught"
    /\ eResponse' =
         IF eFormatter = "index"
         THEN formatErrorResponse(eError, eDatabaseType, eIdentifier, eTableName,
                                  ePools[1], ePools[2])
         ELSE UtilsFormatErrorResponse(eError, eIdentifier, eTableName)
    /\ ePc' = "formatted"
    /\ UNCHANGED <<eFormatter, eError, eDatabaseType, ePools, eIdentifier, eTableName>>
    /\ UNCHANGED otherThanFmt

NextFmt == FormatError

SpecFmt == InitFmt /\ [][NextFmt]_vars

(***************************************************************************)
(* Claims about formatErrorResponse.                                       *)
(***************************************************************************)
\* the dialect whose lookup table the formatter uses
FormatterDialect ==
    IF eFormatter = "utils" THEN "mysql"
    ELSE InferredDbType(eDatabaseType, ePools[1], ePools[2])

\* the error carries a code that is not in the dialect's lookup table
CodeNotInTable ==
    /\ Truthy(eError.code)
    /\ eError.code.text \notin (IF FormatterDialect = "mysql" THEN MySqlErrorCodes
                                ELSE PostgresErrorCodes)

GenericMessage ==
    (IF FormatterDialect = "mysql" THEN <<"M", "y", "S", "Q", "L", " ", "E", "r", "r", "o", "r", " ", "C", "o", "d", "e", ":", " ">>
     ELSE <<"P", "o", "s", "t", "g", "r", "e", "S", "Q", "L", " ", "E", "r", "r", "o", "r", " ", "C", "o", "d", "e", ":", " ">>) \o eError.code.text \o <<".">>

\* the raw underlying message: error.message, or the text of the error itself
RawMessage ==
    IF eError.message.present /\ eError.message.text # <<>> THEN eError.message.text
    ELSE IF eError.isErrorInstance THEN <<"E", "r", "r", "o", "r">>
    ELSE <<"[", "o", "b", "j", "e", "c", "t", " ", "O", "b", "j", "e", "c", "t", "]">>

\* C16: for an error object carrying a code that is not in the dialect's lookup
\* table, the formatter returns (it does not throw) an isError response with
\* exactly one text block, which contains the generic '<Dialect> Error Code: X.'
\* message of that dialect and the raw underlying message.
C16_UnknownCodeGenericMessage ==
    (ePc = "formatted" /\ CodeNotInTable) =>
        /\ eResponse.isError
        /\ Len(eResponse.content) = 1
        /\ eResponse.content[1].type = "text"
        /\ includes(eResponse.content[1].text, GenericMessage)
        /\ includes(eResponse.content[1].text, RawMessage)

\* the PostgreSQL formatter was given the code X1 with the message "boom"
C16_Witness ==
    /\ ePc = "formatted"
    /\ eFormatter = "index"
    /\ eDatabaseType = "postgres"
    /\ eError.code = Text(CodeUnknown)
    /\ eError.message = Text(<<"b", "o", "o", "m">>)
    /\ includes(eResponse.content[1].text, <<"P", "o", "s", "t", "g", "r", "e", "S", "Q", "L", " ", "E", "r", "r", "o", "r", " ", "C", "o", "d", "e", ":", " ", "X", "1", ".", "\n", "S", "e", "r", "v", "e", "r", " ", "D", "e", "t", "a", "i", "l", "s", ":", " ", "b", "o", "o", "m">>)

(***************************************************************************)
(* The logging wrapper registered for every tool (src/index.ts).           *)
(***************************************************************************)
ToolNames == {"get_schema", "run_query", "find_navigation_paths"}

\* what the handlers throw: Error objects, with their message
ThrownMessages == {"", "Unsupported database type: x", "connect ECONNREFUSED"}

\* what the original handler does when awaited: it resolves with a response of its
\* own, throws before its first await, or rejects later
HandlerBehaviours ==
    [ kind : {"returns", "throws", "rejects"}, isError : BOOLEAN, message : ThrownMessages ]

\* the response the handler resolves with
HandlerResponse(tool, behaviour) ==
    [ isError |-> behaviour.isError,
      content |-> <<[type |-> "text", text |-> <<"result of", tool, "">>]>> ]

NoOutcome == [escaped |-> FALSE, responses |-> <<>>]

\* a catch block that lets the error through
CatchBlockRethrowing(tool, error) == [escaped |-> TRUE, responses |-> <<>>]

\* the catch block of the wrapper
CatchBlock(tool, error) ==
    [ escaped |-> FALSE,
      responses |->
        << [ isError |-> TRUE,
             content |-> <<[ type |-> "text",
                             text |-> <<"Internal server error in tool", tool,
                                        error.message>> ]>> ] >> ]

InitWrap ==
    /\ ROIdle
    /\ ExecIdle
    /\ FetchIdle
    /\ DiffIdle
    /\ NavIdle
    /\ FmtIdle
    /\ HandlerIdle
    /\ BfsIdle
    /\ KeyIdle
    /\ RelIdle
    /\ PoolIdle
    /\ wTool \in ToolNames
    /\ wBehaviour \in HandlerBehaviours
    /\ wPc = "registered"
    /\ wResult = <<>>
    /\ wCaught = <<>>
    /\ wOutcome = NoOutcome

\* the transport calls loggingHandler: the request is logged and the try block
\* is entered
Invoke ==
    /\ wPc = "registered"
    /\ wPc' = "awaiting"
    /\ UNCHANGED <<wTool, wBehaviour, wResult, wCaught, wOutcome>>
    /\ UNCHANGED otherThanWrap

\* await originalHandler(args, extra) resolves
HandlerResolves ==
    /\ wPc = "awaiting"
    /\ wBehaviour.kind = "returns"
    /\ wResult' = HandlerResponse(wTool, wBehaviour)
    /\ wPc' = "resolved"
    /\ UNCHANGED <<wTool, wBehaviour, wCaught, wOutcome>>
    /\ UNCHANGED otherThanWrap

\* originalHandler throws, or the promise it returned rejects: both land in catch
HandlerFails ==
    /\ wPc = "awaiting"
    /\ wBehaviour.kind \in {"throws", "rejects"}
    /\ wCaught' = [message |-> wBehaviour.message]
    /\ wPc' = "catch"
    /\ UNCHANGED <<wTool, wBehaviour, wResult, wOutcome>>
    /\ UNCHANGED otherThanWrap

\* the success line is logged and the handler's result returned
ReturnResult ==
    /\ wPc = "resolved"
    /\ wOutcome' = [escaped |-> FALSE, responses |-> Append(wOutcome.responses, wResult)]
    /\ wPc' = "done"
    /\ UNCHANGED <<wTool, wBehaviour, wResult, wCaught>>
    /\ UNCHANGED otherThanWrap

\* the catch block logs and returns its own response
ReturnInternalError ==
    /\ wPc = "catch"
    /\ wOutcome' = CatchBlock(wTool, wCaught)
    /\ wPc' = "done"
    /\ UNCHANGED <<wTool, wBehaviour, wResult, wCaught>>
    /\ UNCHANGED otherThanWrap

NextWrap ==
    \/ Invoke
    \/ HandlerResolves
    \/ HandlerFails
    \/ ReturnResult
    \/ ReturnInternalError

SpecWrap == InitWrap /\ [][NextWrap]_vars

(***************************************************************************)
(* Claims about the logging wrapper.                                       *)
(***************************************************************************)
\* C17: every invocation of the wrapped handler ends with exactly one response:
\* the handler's own when it resolves, an isError response made by the wrapper
\* when it throws or rejects; no exception leaves the wrapper, no response is
\* given before the end, and the invocation never stops short of the end.
C17_ExactlyOneResponse ==
    /\ ~wOutcome.escaped
    /\ wPc \in {"registered", "awaiting", "resolved", "catch"} =>
         /\ wOutcome.responses = <<>>
         /\ ENABLED NextWrap
    /\ wPc = "done" =>
         /\ Len(wOutcome.responses) = 1
         /\ wBehaviour.kind = "returns" =>
              wOutcome.responses[1] = HandlerResponse(wTool, wBehaviour)
         /\ wBehaviour.kind \in {"throws", "rejects"} =>
              /\ wOutcome.responses[1].isError
              /\ wOutcome.responses[1].content[1].text[1] = "Internal server error in tool"
              /\ wOutcome.responses[1].content[1].text[2] = wTool

\* a handler rejected and the caller got the wrapper's response
C17_Witness ==
    /\ wPc = "done"
    /\ wBehaviour.kind = "rejects"
    /\ wBehaviour.message = "connect ECONNREFUSED"
    /\ Len(wOutcome.responses) = 1
    /\ wOutcome.responses[1].isError
    /\ wOutcome.responses[1].content[1].text[3] = "connect ECONNREFUSED"

(***************************************************************************)
(* Claims about the batch loop of executeBatchHandler.                     *)
(***************************************************************************)
\* an execute_batch call that got past the set-up and the read-only pre-check has
\* ended
BatchEnded ==
    /\ exPc = "done"
    /\ exTool = "execute_batch"
    /\ exPoolInit
    /\ ~SomeQueryRejected(exDb, exQueries)
    /\ IF exDb = "mysql" THEN exHasName ELSE Len(exConns) = 1

SomeQueryFailed == \E j \in DOMAIN exResults : ~exResults[j]

\* the queries were submitted one at a time in list order: 1, 2, ..
SubmittedInListOrder == \A j \in DOMAIN exOrder : exOrder[j] = j

\* nothing was submitted after a failing query
NothingAfterFailure == \A j \in DOMAIN exResults : ~exResults[j] => j = Len(exOrder)

TransactionStatements == {"BEGIN", "SET LOCAL", "COMMIT", "ROLLBACK"}

SomeTransactionStatementFailed ==
    \E k \in DOMAIN exSent : exSent[k].stmt \in TransactionStatements /\ ~exSent[k].ok

\* MySQL opens no transaction; PostgreSQL has sent BEGIN and SET LOCAL
TransactionOpened ==
    exDb = "postgres" =>
        \E k \in DOMAIN exSent : exSent[k].stmt = "SET LOCAL" /\ exSent[k].ok

WholeWordSomewhere(u, keyword) ==
    \E i \in 1..(Len(u) - Len(keyword) + 1) :
        /\ SubSeq(u, i, i + Len(keyword) - 1) = keyword
        /\ IsWholeWordAt(u, keyword, i)

\* C22: isReadOnlyQuery of utils.ts rejects every statement with an allowed first
\* token in which a denylisted keyword occurs as a whole word at any occurrence,
\* also when an earlier occurrence of the keyword lies inside an identifier.
C22_AnyWholeWordOccurrenceRejected ==
    (/\ roPc = "classified"
     /\ StartsWithAllowed(Normalized(roQuery), ALLOWED_QUERY_PREFIXES)
     /\ \E keyword \in FORBIDDEN_KEYWORDS : WholeWordSomewhere(Normalized(roQuery), keyword))
    => roUtilsResult = FALSE

(***************************************************************************)
(* Claims about MySqlAdapter.getIndexes.                                   *)
(***************************************************************************)
\* C23: when MySqlAdapter.getIndexes is called without a table name and the index
\* query of some table fails, the call fails: the error reaches the caller.
C23_IndexFailurePropagated ==
    (/\ exPc = "done"
     /\ exTool = "adapter"
     /\ exMethod = "getIndexes"
     /\ exDb = "mysql"
     /\ \E k \in DOMAIN exSent : exSent[k].stmt = "SHOW INDEX" /\ ~exSent[k].ok)
    => exResp = "throw"

(***************************************************************************)
(* get_table_columns (tools/types.ts) and visualize_schema                 *)
(* (tools/visualization.ts): the handlers around the adapter call.         *)
(***************************************************************************)
AdapterTools == {"get_table_columns", "visualize_schema"}

\* what the adapter call of the handler does: it returns rows / tables, returns
\* nothing, or throws
AdapterResults == {"rows", "empty", "throws"}

\* the pool the adapter of a dialect is built on is there
PoolInitialized(dbType, pools) == IF dbType = "mysql" THEN pools[1] ELSE pools[2]

\* getDbAdapter: new MySqlAdapter() / new PostgresAdapter(), whose constructor
\* throws when its pool is not initialized
getDbAdapter(dbType, pools) ==
    IF PoolInitialized(dbType, pools)
    THEN [thrown |-> FALSE, adapter |-> dbType]
    ELSE [thrown |-> TRUE, adapter |-> "undefined"]

InitHandler ==
    /\ ROIdle
    /\ ExecIdle
    /\ FetchIdle
    /\ DiffIdle
    /\ NavIdle
    /\ FmtIdle
    /\ WrapIdle
    /\ BfsIdle
    /\ KeyIdle
    /\ RelIdle
    /\ PoolIdle
    /\ hTool \in AdapterTools
    /\ hDatabaseType \in DatabaseTypes
    /\ hPools \in PoolSetups
    /\ hHasName \in BOOLEAN
    /\ hResult \in AdapterResults
    /\ hAdapter = "undefined"
    /\ hPc = "try"
    /\ hOutcome = "none"

\* try { adapter = getDbAdapter(databaseType); the identifier is validated
TryGetAdapter ==
    /\ hPc = "try"
    /\ LET made == getDbAdapter(hDatabaseType, hPools)
       IN  IF made.thrown
           THEN /\ hPc' = "catch"
                /\ UNCHANGED <<hAdapter, hOutcome>>
           ELSE /\ hAdapter' = made.adapter
                /\ IF hDatabaseType = "mysql" /\ ~hHasName
                   THEN /\ hOutcome' = "error response"
                        /\ hPc' = "done"
                   ELSE /\ hPc' = "call"
                        /\ UNCHANGED hOutcome
    /\ UNCHANGED <<hTool, hDatabaseType, hPools, hHasName, hResult>>
    /\ UNCHANGED otherThanHandler

\* await adapter.getTableColumns(...) / adapter.getSchemaDetails(...), and what
\* the handler returns for its result
CallAdapter ==
    /\ hPc = "call"
    /\ IF hResult = "throws"
       THEN /\ hPc' = "catch"
            /\ UNCHANGED hOutcome
       ELSE /\ hPc' = "done"
            /\ hOutcome' = (IF hResult = "empty" /\ hTool = "get_table_columns"
                            THEN "error response" ELSE "response")
    /\ UNCHANGED <<hTool, hDatabaseType, hPools, hHasName, hResult, hAdapter>>
    /\ UNCHANGED otherThanHandler

\* catch (error) { adapter = adapter! ?? getDbAdapter(databaseType || 'mysql');
\* return adapter.formatError(...) }
HandlerCatch ==
    /\ hPc = "catch"
    /\ LET made == IF hAdapter # "undefined"
                   THEN [thrown |-> FALSE, adapter |-> hAdapter]
                   ELSE getDbAdapter(hDatabaseType, hPools)
       IN  /\ hAdapter' = made.adapter
           /\ hOutcome' = (IF made.thrown THEN "rejects" ELSE "error response")
    /\ hPc' = "done"
    /\ UNCHANGED <<hTool, hDatabaseType, hPools, hHasName, hResult>>
    /\ UNCHANGED otherThanHandler

NextHandler ==
    \/ TryGetAdapter
    \/ CallAdapter
    \/ HandlerCatch

SpecHandler == InitHandler /\ [][NextHandler]_vars

(***************************************************************************)
(* Claims about the handlers around the adapter call.                      *)
(***************************************************************************)
\* C24: when the adapter of the requested dialect cannot be constructed (its pool
\* is not initialized), get_table_columns and visualize_schema return an error
\* response themselves; nothing is thrown out of their catch block.
C24_HandlerAnswersWithoutAdapter ==
    (hPc = "done" /\ ~PoolInitialized(hDatabaseType, hPools))
    => hOutcome = "error response"

(***************************************************************************)
(* Claims about the order of the paths findPathsBFS returns.               *)
(***************************************************************************)
\* C26: the paths findPathsBFS returns are in the order of non-decreasing hop
\* count, so the first one is a shortest path between the two tables.
C26_PathsByHopCount ==
    nKind = "paths" =>
        \A i \in DOMAIN nPaths : \A j \in DOMAIN nPaths :
            i < j => Len(nPaths[i]) <= Len(nPaths[j])

\* a direct path was returned before a path over a third table
C26_Witness ==
    /\ nPc = "done"
    /\ nKind = "paths"
    /\ Len(nPaths) >= 2
    /\ Len(nPaths[1]) = 2
    /\ Len(nPaths[Len(nPaths)]) = 3

(***************************************************************************)
(* findPathsBFS, one iteration of its while loop at a time.                *)
(***************************************************************************)
\* the largest max_hops tried: more than there are tables
MaxSearchHops == 4

\* an iteration that leaves an entry it has seen before at the head of the queue
BFSIterationKeepingSeen(queue, visitedInPath, paths, endNode, maxDepth, adjList) ==
    LET item == Head(queue)
        rest == Tail(queue)
        visited == visitedInPath \cup { <<item.node, item.path>> }
    IN  IF AlreadyVisited(visitedInPath, item.node, item.path)
        THEN [queue |-> queue, visitedInPath |-> visitedInPath, paths |-> paths]
        ELSE IF item.node = endNode
        THEN [queue |-> rest, visitedInPath |-> visited, paths |-> Append(paths, item.path)]
        ELSE IF item.depth >= maxDepth
        THEN [queue |-> rest, visitedInPath |-> visited, paths |-> paths]
        ELSE LET relationships == IF MapHas(adjList, item.node)
                                  THEN MapGet(adjList, item.node) ELSE <<>>
             IN  [queue |-> rest \o Enqueued(relationships, 1, item.node, item.path,
                                             item.depth),
                  visitedInPath |-> visited, paths |-> paths]

\* the body of while (queue.length > 0): queue.shift(), the visited test, the
\* end-node test, the depth test and the pushes
BFSIteration(queue, visitedInPath, paths, endNode, maxDepth, adjList) ==
    LET item == Head(queue)
        rest == Tail(queue)
        visited == visitedInPath \cup { <<item.node, item.path>> }
    IN  IF AlreadyVisited(visitedInPath, item.node, item.path)
        THEN [queue |-> rest, visitedInPath |-> visitedInPath, paths |-> paths]
        ELSE IF item.node = endNode
        THEN [queue |-> rest, visitedInPath |-> visited, paths |-> Append(paths, item.path)]
        ELSE IF item.depth >= maxDepth
        THEN [queue |-> rest, visitedInPath |-> visited, paths |-> paths]
        ELSE LET relationships == IF MapHas(adjList, item.node)
                                  THEN MapGet(adjList, item.node) ELSE <<>>
             IN  [queue |-> rest \o Enqueued(relationships, 1, item.node, item.path,
                                             item.depth),
                  visitedInPath |-> visited, paths |-> paths]

InitBfs ==
    /\ ROIdle
    /\ ExecIdle
    /\ FetchIdle
    /\ DiffIdle
    /\ NavIdle
    /\ FmtIdle
    /\ WrapIdle
    /\ HandlerIdle
    /\ KeyIdle
    /\ RelIdle
    /\ PoolIdle
    /\ bAdjList \in { BuildAdjList(RelationshipsOf(e), 1, <<>>) : e \in EdgeLists }
    /\ bEndNode \in NavTables
    /\ bMaxDepth \in 1..MaxSearchHops
    /\ bQueue = <<[node |-> "A", path |-> <<"A">>, depth |-> 0]>>
    /\ bVisitedInPath = {}
    /\ bPaths = <<>>
    /\ bPc = "loop"

\* one iteration of the loop on the entry at the head of the queue
BfsIterate ==
    /\ bPc = "loop"
    /\ bQueue # <<>>
    /\ LET after == BFSIteration(bQueue, bVisitedInPath, bPaths, bEndNode, bMaxDepth,
                                 bAdjList)
       IN  /\ bQueue' = after.queue
           /\ bVisitedInPath' = after.visitedInPath
           /\ bPaths' = after.paths
    /\ UNCHANGED <<bAdjList, bEndNode, bMaxDepth, bPc>>
    /\ UNCHANGED otherThanBfs

\* the queue is empty: return paths
BfsReturn ==
    /\ bPc = "loop"
    /\ bQueue = <<>>
    /\ bPc' = "returned"
    /\ UNCHANGED <<bAdjList, bEndNode, bMaxDepth, bQueue, bVisitedInPath, bPaths>>
    /\ UNCHANGED otherThanBfs

NextBfs ==
    \/ BfsIterate
    \/ BfsReturn

SpecBfs == InitBfs /\ [][NextBfs]_vars

\* the loop is sequential code: it goes on while it can
SpecBfsFair == SpecBfs /\ WF_vars(NextBfs)

(***************************************************************************)
(* Claims about the termination of findPathsBFS.                           *)
(***************************************************************************)
\* C25: findPathsBFS terminates for every adjacency structure, also with cycles,
\* self-referencing foreign keys and parallel edges, and for every positive
\* maxHops, also one larger than the number of tables: the queue becomes empty
\* and the function returns.
C25_SearchTerminates == <>(bPc = "returned" /\ bQueue = <<>>)

\* a search over the cycle A - B - C - A with more hops than there are tables
C25_Witness ==
    /\ bPc = "returned"
    /\ bMaxDepth > Cardinality(NavTables)
    /\ bEndNode = "C"
    /\ bPaths = << <<"A", "C">>, <<"A", "B", "C">> >>
    /\ Len(MapGet(bAdjList, "B")) = 2

(***************************************************************************)
(* The accumulator keys of the catalog fetchers, with names as texts.      *)
(* (In the fetch model above no name has a '.', and the triple              *)
(* <<table, ".", name>> stands for the key there.)                         *)
(***************************************************************************)
\* the rows of one fetch
MaxKeyRows == 3

\* table names: a, a.b
KeyTableNames == { <<"a">>, <<"a", ".", "b">> }

\* index or constraint names: c, b.c
KeyObjectNames == { <<"c">>, <<"b", ".", "c">> }

\* a catalog row of the index or constraint query: its table, its index or
\* constraint, and the column it names
KeyRows == [table : KeyTableNames, name : KeyObjectNames, column : {"x", "y"}]

KeyRowLists == UNION { [1..k -> KeyRows] : k \in 1..MaxKeyRows }

\* `${idx.TABLE_NAME}.${idx.INDEX_NAME}` / `${con.TABLE_NAME}.${con.CONSTRAINT_NAME}`
UniqueKey(table, name) == table \o <<".">> \o name

RECURSIVE GroupByUniqueKey(_, _, _)
\* for (const idx of indexesInfo) / for (const con of constraintsInfo): the
\* accumulator of the row's key is created when missing, and gets the row's column
GroupByUniqueKey(temp, rows, i) ==
    IF i > Len(rows) THEN temp
    ELSE LET row == rows[i]
             uniqueKey == UniqueKey(row.table, row.name)
             started == IF ~MapHas(temp, uniqueKey)
                        THEN MapSet(temp, uniqueKey,
                                    [tableName |-> row.table, name |-> row.name,
                                     columns |-> <<>>])
                        ELSE temp
             entry == MapGet(started, uniqueKey)
         IN  GroupByUniqueKey(
                 MapSet(started, uniqueKey,
                        [entry EXCEPT !.columns = Append(@, row.column)]),
                 rows, i + 1)

InitKey ==
    /\ ROIdle
    /\ ExecIdle
    /\ FetchIdle
    /\ DiffIdle
    /\ NavIdle
    /\ FmtIdle
    /\ WrapIdle
    /\ HandlerIdle
    /\ BfsIdle
    /\ RelIdle
    /\ PoolIdle
    /\ kKind \in {"index", "constraint"}
    /\ kRows \in KeyRowLists
    /\ kPc = "fetched"
    /\ kTemp = <<>>

\* the loop over the fetched rows
GroupRows ==
    /\ kPc = "fetched"
    /\ kTemp' = GroupByUniqueKey(<<>>, kRows, 1)
    /\ kPc' = "grouped"
    /\ UNCHANGED <<kKind, kRows>>
    /\ UNCHANGED otherThanKey

NextKey == GroupRows

SpecKey == InitKey /\ [][NextKey]_vars

(***************************************************************************)
(* Claims about the accumulator keys.                                      *)
(***************************************************************************)
\* the (table, name) pairs of the rows fetched
FetchedPairs == { <<kRows[i].table, kRows[i].name>> : i \in DOMAIN kRows }

\* C27: catalog objects with different (table name, index name) or (table name,
\* constraint name) pairs are never merged into one accumulator, also when the
\* names contain a '.': there is one accumulator per pair, holding the columns
\* of the rows of that pair.
C27_OneAccumulatorPerPair ==
    kPc = "grouped" =>
        /\ Len(kTemp) = Cardinality(FetchedPairs)
        /\ \A a \in DOMAIN kTemp :
             Len(kTemp[a].value.columns) =
                 Cardinality({ i \in DOMAIN kRows :
                                 /\ kRows[i].table = kTemp[a].value.tableName
                                 /\ kRows[i].name = kTemp[a].value.name })

(***************************************************************************)
(* PostgresAdapter.getRelationships over a schema in which two tables each *)
(* declare one foreign key, under the same constraint name or under two.   *)
(***************************************************************************)
\* the foreign keys declared: t1(a) -> t2(p) and t2(q) -> t1(b); PostgreSQL keeps
\* constraint names unique per table, not per schema
ForeignKeyPairs ==
    { { [name |-> "fk1", table |-> "t1", cols |-> <<"a">>, refTable |-> "t2",
         refCols |-> <<"p">>],
        [name |-> second, table |-> "t2", cols |-> <<"q">>, refTable |-> "t1",
         refCols |-> <<"b">>] } : second \in {"fk1", "fk2"} }

\* the rows of the query: referential_constraints rc joined with table_constraints
\* tc and key_column_usage kcu on the constraint name, and with
\* constraint_column_usage ccu on the referenced key of rc; WHERE on tc.table_name
RelationshipJoinRows(fks, tables) ==
    UNION { UNION { UNION { { [name |-> rc.name, table |-> tc.table,
                               column |-> kcu.cols[i], refTable |-> rc.refTable,
                               refColumn |-> rc.refCols[j], ordinal |-> i] :
                                i \in DOMAIN kcu.cols, j \in DOMAIN rc.refCols } :
                            kcu \in { f \in fks : f.name = rc.name } } :
                    tc \in { f \in fks : f.name = rc.name /\ TablePasses(f.table, tables) } } :
            rc \in fks }

RECURSIVE RowPermutations(_)
\* the sequences that list every row of the set once
RowPermutations(S) ==
    IF S = {} THEN { <<>> }
    ELSE UNION { { <<r>> \o p : p \in RowPermutations(S \ {r}) } : r \in S }

RECURSIVE JoinArrivals(_)
\* ORDER BY rc.constraint_name, kcu.ordinal_position: rows by constraint name,
\* rows of one name (all of ordinal 1 here) in any order
JoinArrivals(rows) ==
    IF rows = {} THEN { <<>> }
    ELSE LET first == CHOOSE n \in { r.name : r \in rows } :
                         \A r \in rows : r.name = n \/ r.name = "fk2"
             group == { r \in rows : r.name = first }
         IN  { head \o tail : head \in RowPermutations(group),
                               tail \in JoinArrivals(rows \ group) }

InitRel ==
    /\ ROIdle
    /\ ExecIdle
    /\ FetchIdle
    /\ DiffIdle
    /\ NavIdle
    /\ FmtIdle
    /\ WrapIdle
    /\ HandlerIdle
    /\ BfsIdle
    /\ KeyIdle
    /\ PoolIdle
    /\ rDeclared \in ForeignKeyPairs
    /\ rTables \in { {}, {"t1"} }
    /\ rPc = "called"
    /\ rRows = <<>>
    /\ rKind = "none"
    /\ rValue = <<>>

\* getRelationships: the query, the grouping loop and the result list
GetPostgresRelationships ==
    /\ rPc = "called"
    /\ \E ok \in BOOLEAN :
         IF ok
         THEN \E rows \in JoinArrivals(RelationshipJoinRows(rDeclared, rTables)) :
                /\ rRows' = rows
                /\ rValue' = Relationships(GroupRelationshipRows(<<>>, rows, 1))
                /\ rKind' = "relationships"
         ELSE /\ rKind' = "error"
              /\ UNCHANGED <<rRows, rValue>>
    /\ rPc' = "done"
    /\ UNCHANGED <<rDeclared, rTables>>
    /\ UNCHANGED otherThanRel

NextRel == GetPostgresRelationships

SpecRel == InitRel /\ [][NextRel]_vars

(***************************************************************************)
(* Claims about PostgresAdapter.getRelationships.                          *)
(***************************************************************************)
\* C28: PostgresAdapter.getRelationships returns one Relationship per declared
\* foreign key (of the tables asked for), also when two foreign keys on two
\* tables carry the same constraint name: each has its own source table, source
\* columns, referenced table and referenced columns.
C28_OneRelationshipPerForeignKey ==
    rKind = "relationships" =>
        LET asked == { f \in rDeclared : TablePasses(f.table, rTables) }
        IN  /\ Len(rValue) = Cardinality(asked)
            /\ \A f \in asked :
                 \E n \in DOMAIN rValue :
                    /\ rValue[n].constraintName = f.name
                    /\ rValue[n].sourceTable = f.table
                    /\ rValue[n].sourceColumns = f.cols
                    /\ rValue[n].referencedTable = f.refTable
                    /\ rValue[n].referencedColumns = f.refCols
(***************************************************************************)
(* Claims about the PostgreSQL transaction bracket of the handlers.        *)
(***************************************************************************)
TransactionTools == {"execute_query", "explain_query", "execute_batch"}

\* the client the call acquired has been given back to the pool
ClientReleased == exCur # 0 /\ exConns[exCur] >= 1

BeginSent == \E k \in DOMAIN exSent : exSent[k].stmt = "BEGIN"

\* C30: in the PostgreSQL paths of execute_query, explain_query and execute_batch,
\* once BEGIN was sent on the client, the last statement sent on it before its
\* release is a COMMIT or a ROLLBACK, on every execution path; so, when that
\* statement does not fail, the client goes back to the pool with no transaction
\* open.
C30_TransactionEndedBeforeRelease ==
    (/\ exDb = "postgres"
     /\ exTool \in TransactionTools
     /\ ClientReleased
     /\ BeginSent)
    => exSent[Len(exSent)].stmt \in {"COMMIT", "ROLLBACK"}

C30_Witness ==
    /\ exPc = "done"
    /\ exDb = "postgres"
    /\ exTool = "explain_query"
    /\ ClientReleased
    /\ Len(exSent) = 2
    /\ exSent[1] = [stmt |-> "BEGIN", ok |-> FALSE]
    /\ exSent[2] = [stmt |-> "ROLLBACK", ok |-> TRUE]
(***************************************************************************)
(* Concurrent calls on the connection pools (config.ts, execution.ts).     *)
(* Each pool hands out at most plSize connections and queues further       *)
(* requests first-in first-out.  A PostgreSQL handler asks for one client  *)
(* and runs all its statements on it; the MySQL path asks for a connection *)
(* per statement inside adapter.executeQuery and gives it back in its      *)
(* finally block before the handler goes on.                               *)
(***************************************************************************)
MaxPoolCalls == 3

MaxPoolSize == 2

PoolCalls == 1 .. MaxPoolCalls

\* connectionLimit / max: the same number for both pools
PoolSizes == 1 .. MaxPoolSize

\* a pool that has handed out every connection it may have
Exhausted(databaseType) == plHeld[databaseType] >= plSize

\* a release that never happens
ReleaseOneNever(held) == held

\* finally { if (connection) connection.release() }: what the call still holds
ReleaseOne(held) == held - 1

\* the queue of a pool without the request of call c
WithoutCall(queue, c) == SelectSeq(queue, LAMBDA x : x # c)

\* calls are numbered by what they ask for (MySQL before PostgreSQL, shorter before
\* longer); the order in which they run is the scheduler's
CallKind(db, left, c) == (IF db[c] = "mysql" THEN 0 ELSE MaxBatch) + left[c]

InitPool ==
    /\ ROIdle
    /\ ExecIdle
    /\ FetchIdle
    /\ DiffIdle
    /\ NavIdle
    /\ FmtIdle
    /\ WrapIdle
    /\ HandlerIdle
    /\ BfsIdle
    /\ KeyIdle
    /\ RelIdle
    /\ plSize \in PoolSizes
    /\ plHeld = [d \in DatabaseTypes |-> 0]
    /\ plQueue = [d \in DatabaseTypes |-> <<>>]
    /\ cDb \in [PoolCalls -> DatabaseTypes]
    /\ cLeft \in [PoolCalls -> 1 .. MaxBatch]
    /\ \A c \in PoolCalls : c + 1 \in PoolCalls => CallKind(cDb, cLeft, c) <= CallKind(cDb, cLeft, c + 1)
    /\ cPc = [c \in PoolCalls |-> "ready"]
    /\ cHeld = [c \in PoolCalls |-> 0]
    /\ cOutcome = [c \in PoolCalls |-> "none"]

\* pgClient = await pgPool.connect() / connection = await this.pool.getConnection():
\* the request joins the queue of its pool
PoolRequest(c) ==
    /\ cPc[c] = "ready"
    /\ cPc' = [cPc EXCEPT ![c] = "waiting"]
    /\ plQueue' = [plQueue EXCEPT ![cDb[c]] = Append(@, c)]
    /\ UNCHANGED <<plSize, plHeld, cDb, cLeft, cHeld, cOutcome>>
    /\ UNCHANGED otherThanPool

\* the pool serves the oldest request as soon as it has a connection to give
PoolGrant(c) ==
    /\ cPc[c] = "waiting"
    /\ plQueue[cDb[c]] # <<>>
    /\ Head(plQueue[cDb[c]]) = c
    /\ ~Exhausted(cDb[c])
    /\ plQueue' = [plQueue EXCEPT ![cDb[c]] = Tail(@)]
    /\ plHeld' = [plHeld EXCEPT ![cDb[c]] = @ + 1]
    /\ cHeld' = [cHeld EXCEPT ![c] = @ + 1]
    /\ cPc' = [cPc EXCEPT ![c] = "holding"]
    /\ UNCHANGED <<plSize, cDb, cLeft, cOutcome>>
    /\ UNCHANGED otherThanPool

\* connectionTimeoutMillis: 5000 of the PostgreSQL pool: a request that waited that
\* long for an exhausted pool is rejected, and the handler's first catch answers
\* 'Failed to initialize database adapter or connection'
PoolTimeout(c) ==
    /\ cPc[c] = "waiting"
    /\ cDb[c] = "postgres"
    /\ Exhausted("postgres")
    /\ plQueue' = [plQueue EXCEPT !["postgres"] = WithoutCall(@, c)]
    /\ cPc' = [cPc EXCEPT ![c] = "done"]
    /\ cOutcome' = [cOutcome EXCEPT ![c] = "rejected"]
    /\ UNCHANGED <<plSize, plHeld, cDb, cLeft, cHeld>>
    /\ UNCHANGED otherThanPool

\* one statement of the call on the connection it holds.  PostgreSQL: the client
\* is kept until the last statement and released in the handler's finally block.
\* MySQL: adapter.executeQuery releases in its finally block after every
\* statement, and the loop of the handler calls it again for the next one.
RunStatement(c) ==
    /\ cPc[c] = "holding"
    /\ cLeft' = [cLeft EXCEPT ![c] = @ - 1]
    /\ IF cDb[c] = "postgres" /\ cLeft[c] > 1
       THEN UNCHANGED <<plHeld, cHeld, cPc, cOutcome>>
       ELSE /\ cHeld' = [cHeld EXCEPT ![c] = ReleaseOne(@)]
            /\ plHeld' = [plHeld EXCEPT ![cDb[c]] = @ - (cHeld[c] - ReleaseOne(cHeld[c]))]
            /\ cPc' = [cPc EXCEPT ![c] = IF cLeft[c] > 1 THEN "ready" ELSE "done"]
            /\ cOutcome' = [cOutcome EXCEPT ![c] = IF cLeft[c] > 1 THEN @ ELSE "answered"]
    /\ UNCHANGED <<plSize, plQueue, cDb>>
    /\ UNCHANGED otherThanPool

NextPool ==
    \E c \in PoolCalls :
        \/ PoolRequest(c)
        \/ PoolGrant(c)
        \/ PoolTimeout(c)
        \/ RunStatement(c)

SpecPool == InitPool /\ [][NextPool]_vars

\* the event loop, the pool and the server keep going: a request that can be made
\* is made, a request that can be served is served, a statement is answered; the
\* timer of a waiting request may or may not run out first
SpecPoolFair ==
    /\ SpecPool
    /\ \A c \in PoolCalls :
          /\ WF_vars(PoolRequest(c))
          /\ WF_vars(PoolGrant(c))
          /\ WF_vars(RunStatement(c))

(***************************************************************************)
(* Claims about the pools under concurrent calls.                          *)
(***************************************************************************)
\* no call holds more than one connection of a pool
AtMostOneHeld == \A c \in PoolCalls : cHeld[c] <= 1

\* every connection of the pool is held by a call that waits for another one
PoolDeadlocked(databaseType) ==
    /\ Exhausted(databaseType)
    /\ \A c \in PoolCalls :
          (cDb[c] = databaseType /\ cHeld[c] > 0) => cPc[c] = "waiting"

NoPoolDeadlock == \A d \in DatabaseTypes : ~PoolDeadlocked(d)

\* C29: no call ever holds more than one connection of the same pool at a time;
\* so, with a pool of fixed size K >= 1 and any number of concurrent calls, no
\* state is reachable in which every pooled connection is held by a call waiting
\* for another one, and under fairness every waiting call eventually acquires a
\* connection and completes.
C29_WaitingCallsAcquire ==
    /\ [](AtMostOneHeld /\ NoPoolDeadlock)
    /\ \A c \in PoolCalls : (cPc[c] = "waiting") ~> (cPc[c] = "holding")
    /\ \A c \in PoolCalls : (cPc[c] = "waiting") ~> (cPc[c] = "done")

\* C29, amended: as above, but a waiting call eventually either acquires a
\* connection or, on the PostgreSQL pool, has its request rejected after waiting
\* for the exhausted pool; in both cases it completes.
C29_WaitingCallsAcquireOrTimeOut ==
    /\ [](AtMostOneHeld /\ NoPoolDeadlock)
    /\ \A c \in PoolCalls :
          (cPc[c] = "waiting") ~> (cPc[c] = "holding" \/ cOutcome[c] = "rejected")
    /\ \A c \in PoolCalls : (cPc[c] = "waiting") ~> (cPc[c] = "done")
    /\ [](\A c \in PoolCalls : cOutcome[c] = "rejected" => cDb[c] = "postgres")

\* a pool of one connection, three calls on it: one was answered, one rejected
\* while the pool was exhausted, one is being served
C29_Witness ==
    /\ plSize = 1
    /\ \A c \in PoolCalls : cDb[c] = "postgres"
    /\ cOutcome[1] = "answered"
    /\ cOutcome[2] = "rejected"
    /\ cPc[3] = "holding"
    /\ Exhausted("postgres")

====
